---- MODULE Spec2Model ----
(***************************************************************************)
(* Version resolution and update decision engine of the FOLIO platform     *)
(* release scripts: the version model, the per-component update runs,      *)
(* the package.json dependency merge, the concurrent descriptor fetch and  *)
(* the retry wrapper.                                                      *)
(*                                                                         *)
(* Strings are sequences of one-character strings, so that splitting,      *)
(* prefix stripping and integer parsing are computed character by          *)
(* character, as the Python code does.                                     *)
(***************************************************************************)
EXTENDS Integers, Sequences, FiniteSets, TLC

(***************************************************************************)
(* Bounds of the model.                                                    *)
(***************************************************************************)
MaxComponents == 2   \* components in a manifest handed to an update run
MaxTags == 2         \* length of a version list a registry answers with
MaxCandidates == 3   \* length of a candidate list handed to the merge
MaxCalls == 2        \* successive calls of update_package_json
MaxApps == 3         \* applications handed to the descriptor orchestrator
MaxWorkers == 2      \* worker threads of the orchestrator's executor
MaxChars == 3        \* characters of a version string handed to parse_semver

(***************************************************************************)
(* Python string and integer primitives.                                   *)
(***************************************************************************)
Digits == {"0", "1", "2", "3", "4", "5", "6", "7", "8", "9"}

IsDigit(c) == c \in Digits

DigitVal(c) ==
  CASE c = "0" -> 0 [] c = "1" -> 1 [] c = "2" -> 2 [] c = "3" -> 3
    [] c = "4" -> 4 [] c = "5" -> 5 [] c = "6" -> 6 [] c = "7" -> 7
    [] c = "8" -> 8 [] c = "9" -> 9

Max(a, b) == IF a > b THEN a ELSE b

\* str.split(sep): the segments between the separators; "" splits to [""].
RECURSIVE SplitFrom(_, _, _)
SplitFrom(s, sep, segment) ==
  IF s = <<>> THEN <<segment>>
  ELSE IF s[1] = sep THEN <<segment>> \o SplitFrom(Tail(s), sep, <<>>)
  ELSE SplitFrom(Tail(s), sep, Append(segment, s[1]))

split(s, sep) == SplitFrom(s, sep, <<>>)

\* str.strip() as int() applies it to its argument: blanks off both ends.
RECURSIVE strip(_)
strip(s) ==
  IF s = <<>> THEN s
  ELSE IF s[1] = " " THEN strip(Tail(s))
  ELSE IF s[Len(s)] = " " THEN strip(SubSeq(s, 1, Len(s) - 1))
  ELSE s

\* The digits of a stripped int() literal t, after its sign.
Unsigned(t) == IF t # <<>> /\ t[1] \in {"+", "-"} THEN Tail(t) ELSE t

\* Digits with single underscores between digits only.
DigitsOK(b) ==
  /\ b # <<>>
  /\ \A i \in 1..Len(b) :
       \/ IsDigit(b[i])
       \/ /\ b[i] = "_"
          /\ i > 1 /\ i < Len(b)
          /\ IsDigit(b[i - 1]) /\ IsDigit(b[i + 1])

\* Whether int(p) succeeds: optional blanks, optional sign, digits.
\* Otherwise int raises ValueError.
IntLiteralOK(p) == DigitsOK(Unsigned(strip(p)))

RECURSIVE DigitsValue(_, _)
DigitsValue(b, acc) ==
  IF b = <<>> THEN acc
  ELSE IF b[1] = "_" THEN DigitsValue(Tail(b), acc)
  ELSE DigitsValue(Tail(b), 10 * acc + DigitVal(b[1]))

Signed(t) ==
  IF t[1] = "-" THEN 0 - DigitsValue(Tail(t), 0)
  ELSE DigitsValue(Unsigned(t), 0)

\* int(p) for a literal int() accepts.
IntValue(p) == Signed(strip(p))

\* try: int(p) / except ValueError: 0
IntOrZero(p) == IF IntLiteralOK(p) THEN IntValue(p) ELSE 0

(***************************************************************************)
(* Version model of the update scripts: parse_semver and is_newer.         *)
(***************************************************************************)
\* Lexicographic order of two integer tuples of the same length (Python's
\* tuple comparison).
RECURSIVE TupleLess(_, _)
TupleLess(a, b) ==
  IF a = <<>> \/ b = <<>> THEN Len(a) < Len(b)
  ELSE IF a[1] # b[1] THEN a[1] < b[1]
  ELSE TupleLess(Tail(a), Tail(b))

TupleLeq(a, b) == a = b \/ TupleLess(a, b)

\* Lines 64-72: the first three parts as integers, padded with zeros.
Nums(parts) ==
  [i \in 1..3 |-> IF i <= Len(parts) THEN IntOrZero(parts[i]) ELSE 0]

\* Python's None, told apart from every string.
None == <<"None">>

\* Python truthiness of a string or None: None and "" are falsy.
Falsy(v) == v = None \/ v = <<>>

\* parse_semver, computed from the characters of the string; (version or
\* "0") reads None and "" as "0".
ParseSemver(version) ==
  Nums(split(IF Falsy(version) THEN <<"0">> ELSE version, "."))

\* The version strings the update runs meet.
V100 == <<"1", ".", "0", ".", "0">>

V101 == <<"1", ".", "0", ".", "1">>

V102 == <<"1", ".", "0", ".", "2">>

V110 == <<"1", ".", "1", ".", "0">>

V200 == <<"2", ".", "0", ".", "0">>

V11 == <<"1", ".", "1">>

RunVersions == {V100, V101, V102, V110, V200, V11}

\* ParseSemver of those strings, computed once and looked up afterwards.
RunTriples == [v \in RunVersions |-> ParseSemver(v)]

parse_semver(version) ==
  IF version \in RunVersions THEN RunTriples[version]
  ELSE ParseSemver(version)

is_newer(current, candidate) ==
  TupleLess(parse_semver(current), parse_semver(candidate))

(***************************************************************************)
(* Scope filter and update decision of the update scripts.                 *)
(***************************************************************************)
FilterScopes == {"major", "minor", "patch"}

SortOrders == {"asc", "desc"}

\* The loop body with the patch scope comparing the minor component only.
ScopeHoldsMinorOnly(sem, base, scope) ==
  CASE scope = "minor" -> sem[1] = base[1]
    [] scope = "patch" -> sem[2] = base[2]
    [] OTHER -> TRUE

\* The for-loop body of filter_versions: whether v is appended to result.
ScopeHolds(sem, base, scope) ==
  CASE scope = "minor" -> sem[1] = base[1]
    [] scope = "patch" -> sem[1] = base[1] /\ sem[2] = base[2]
    [] OTHER -> TRUE

InScope(v, base_version, scope) ==
  ScopeHolds(parse_semver(v), parse_semver(base_version), scope)

RECURSIVE SelectInScope(_, _, _)
SelectInScope(versions, base_version, scope) ==
  IF versions = <<>> THEN <<>>
  ELSE (IF InScope(versions[1], base_version, scope)
        THEN <<versions[1]>> ELSE <<>>)
       \o SelectInScope(Tail(versions), base_version, scope)

\* A filter that forgets the scope.
filter_versions_unscoped(versions, base_version, scope) ==
  IF versions = <<>> \/ Falsy(base_version) THEN <<>> ELSE versions

filter_versions(versions, base_version, scope) ==
  IF versions = <<>> \/ Falsy(base_version) THEN <<>>
  ELSE SelectInScope(versions, base_version, scope)

\* sorted(..., key=parse_semver, reverse=...): a stable sort; with reverse
\* the keys descend and equal keys keep their original order.
RECURSIVE InsertByKey(_, _, _)
KeyBefore(kv, kh, reverse) ==
  IF reverse THEN TupleLess(kh, kv) ELSE TupleLess(kv, kh)

InsertByKey(v, lst, reverse) ==
  IF lst = <<>> THEN <<v>>
  ELSE IF KeyBefore(parse_semver(v), parse_semver(lst[1]), reverse)
       THEN <<v>> \o lst
       ELSE <<lst[1]>> \o InsertByKey(v, Tail(lst), reverse)

\* Line 202 with the list left as it came.
unsorted(lst, reverse) == lst

RECURSIVE sorted(_, _)
sorted(lst, reverse) ==
  IF lst = <<>> THEN <<>>
  ELSE InsertByKey(lst[Len(lst)], sorted(SubSeq(lst, 1, Len(lst) - 1), reverse),
                   reverse)

\* Line 203 taking the head of the list whatever the order.
NewestIsHead(sorted_versions, order) == sorted_versions[1]

\* Line 203: the newest end of the sorted list.
Newest(sorted_versions, order) ==
  IF order = "desc" THEN sorted_versions[1]
  ELSE sorted_versions[Len(sorted_versions)]

\* Line 204.
NewerOrNone(current_version, newest) ==
  IF is_newer(current_version, newest) THEN newest ELSE None

decide_update(current_version, candidate_versions, order) ==
  IF candidate_versions = <<>> THEN None
  ELSE NewerOrNone(current_version,
                   Newest(sorted(candidate_versions, order = "desc"), order))


(***************************************************************************)
(* Version comparison and name conversion of update-package-json.          *)
(***************************************************************************)
\* str.lstrip(chars): leading characters of the set removed.
RECURSIVE lstrip(_, _)
lstrip(s, chars) ==
  IF s # <<>> /\ s[1] \in chars THEN lstrip(Tail(s), chars) ELSE s

\* Lines 74-79: the digits a part starts with.
RECURSIVE LeadingDigits(_)
LeadingDigits(part) ==
  IF part # <<>> /\ IsDigit(part[1])
  THEN <<part[1]>> \o LeadingDigits(Tail(part))
  ELSE <<>>

\* Line 80: int(numeric_part) if numeric_part else 0.
NumericValue(numeric_part) ==
  IF numeric_part = <<>> THEN 0 ELSE DigitsValue(numeric_part, 0)

NormalizeParts(parts) ==
  [i \in 1..Len(parts) |-> NumericValue(LeadingDigits(parts[i]))]

normalize_version(version) ==
  NormalizeParts(split(lstrip(version, {"v", "^", "~"}), "."))

\* Lines 89-91: the shorter list padded with zeros.
Padded(parts, max_len) ==
  [i \in 1..max_len |-> IF i <= Len(parts) THEN parts[i] ELSE 0]

\* Lines 94-100 on two lists of the same length.
ComparePadded(v1_parts, v2_parts) ==
  IF TupleLess(v1_parts, v2_parts) THEN 0 - 1
  ELSE IF TupleLess(v2_parts, v1_parts) THEN 1
  ELSE 0

CompareParts(v1_parts, v2_parts) ==
  ComparePadded(Padded(v1_parts, Max(Len(v1_parts), Len(v2_parts))),
                Padded(v2_parts, Max(Len(v1_parts), Len(v2_parts))))

compare_versions(version1, version2) ==
  CompareParts(normalize_version(version1), normalize_version(version2))

FolioUnderscore == <<"f", "o", "l", "i", "o", "_">>

AtFolioSlash == <<"@", "f", "o", "l", "i", "o", "/">>

startswith(s, prefix) ==
  Len(s) >= Len(prefix) /\ SubSeq(s, 1, Len(prefix)) = prefix

convert_ui_module_name(module_name) ==
  IF startswith(module_name, FolioUnderscore)
  THEN AtFolioSlash \o SubSeq(module_name, 7, Len(module_name))
  ELSE module_name

(***************************************************************************)
(* State.  Each subsystem has its own variables and its own specification; *)
(* a specification holds the other subsystems' variables at their idle     *)
(* values.                                                                 *)
(***************************************************************************)
VARIABLES
  \* update_applications / update_components (one run over a manifest)
  variant,        \* "apps": update_applications, "comps": update_components
  filter_scope,   \* the validated scope handed to the run
  sort_order,     \* the validated sort order handed to the run
  components,     \* the list of {name, version} records, mutated in place
  original,       \* the list as it was when the run started
  idx,            \* the for-loop's position: the next record to process
  cache,          \* lru_cache of fetch_app_versions, keyed by name
  writes,         \* per record: assignments to its version field so far
  failed,         \* the records whose resolution raised
  last            \* what the last loop iteration fetched, chose and wrote

VARIABLES
  \* update_package_json (successive calls on one manifest)
  package_json,          \* the parsed manifest: its dependencies section
  updated_ui_report,     \* the update records of the current call
  not_found_ui_report,   \* the not-found report of the current call
  mpc,                   \* "ready", "loop" (inside the for-loop), "returned"
  consumed,              \* entries of ui_modules the loop has processed
  calls,                 \* calls made so far
  initial_dependencies,  \* the dependency map handed to the first call
  applied,               \* the candidates processed so far, in any call
  last_module            \* the entry the last loop iteration processed

VARIABLES
  \* fetch_multiple_descriptors / fetch_all_descriptors (one batch)
  orchestrator,   \* "collect": fetch_multiple_descriptors, "ui": fetch_all_descriptors
  applications,   \* the application records handed to the orchestrator
  futures,        \* per submitted record: the future's state and result
  submitted,      \* records the dict comprehension has submitted so far
  results,        \* the (app, descriptor) pairs appended so far
  opc             \* "submit", "collect", "returned", "unwinding", "raised"

VARIABLES
  \* with_retries (one invocation of the wrapper)
  client,         \* "apps": fetch_app_versions, "tags": fetch_repo_release_tags
  retries,        \* the wrapper's retries counter
  last_error,     \* the wrapper's last_error
  attempts,       \* calls of func made so far
  waits,          \* the whole seconds handed to time.sleep, in order
  rpc,            \* "calling", "returned", "raised"
  raised          \* the error that left the wrapper, if one did

VARIABLES
  \* one call of parse_semver, filter_versions or decide_update
  call,           \* the function called and its arguments
  ret,            \* what the call returned
  twin            \* what decide_update returned for the other sort order

VARIABLES
  \* fetch-updated-ui-modules followed by update-package-json
  registry,       \* per application: FAR's fixed answer, its uiModules
  ui_modules,     \* the list extract_ui_modules returned
  ppc             \* "idle", "fetch", "extracted"

VARIABLES
  \* the command-line programs, from their start to their exit
  program,        \* which script runs
  config,         \* "valid", "invalid_arg" (on the command line),
                  \* "invalid_env" (in FILTER_SCOPE / SORT_ORDER)
  data,           \* the input: "valid", "absent", "malformed",
                  \* "missing_field"
  output,         \* "writable" or "unwritable": the output file
  grouping,       \* the shape of update-applications' payload: a list, or
                  \* an object whose groups have these sizes, in key order
  exit_code,      \* the process's exit status, -1 while it runs
  gpc             \* "idle", "start", "run", "exited"

VARIABLES
  \* lru_cache around fetch_app_versions over a run's calls
  plan,           \* the application names of the run's records, in order
  at,             \* the position in plan of the next call
  lru,            \* the cache's entries, the least recently used first
  latest,         \* per name: the list its last request returned, or None
  down,           \* the names the registry has no answer for
  lookup,         \* the last call: name, how it was answered, the list
  tries           \* the retries the wrapper has made in the current call

runVars == <<variant, filter_scope, sort_order, components, original, idx,
             cache, writes, failed, last>>

mergeVars == <<package_json, updated_ui_report, not_found_ui_report, mpc,
               consumed, calls, initial_dependencies, applied, last_module>>

orchVars == <<orchestrator, applications, futures, submitted, results, opc>>

retryVars == <<client, retries, last_error, attempts, waits, rpc, raised>>

callVars == <<call, ret, twin>>

pipeVars == <<registry, ui_modules, ppc>>

mainVars == <<program, config, data, output, grouping, exit_code, gpc>>

cacheVars == <<plan, at, lru, latest, down, lookup, tries>>

vars ==
  <<runVars, mergeVars, orchVars, retryVars, callVars, pipeVars, mainVars,
    cacheVars>>

\* What each subsystem leaves alone.
notRun ==
  <<mergeVars, orchVars, retryVars, callVars, pipeVars, mainVars,
    cacheVars>>

notMerge ==
  <<runVars, orchVars, retryVars, callVars, pipeVars, mainVars,
    cacheVars>>

notOrch ==
  <<runVars, mergeVars, retryVars, callVars, pipeVars, mainVars,
    cacheVars>>

notRetry ==
  <<runVars, mergeVars, orchVars, callVars, pipeVars, mainVars,
    cacheVars>>

notCall ==
  <<runVars, mergeVars, orchVars, retryVars, pipeVars, mainVars,
    cacheVars>>

notPipe == <<runVars, retryVars, callVars, mainVars, cacheVars>>

notMain ==
  <<runVars, mergeVars, orchVars, retryVars, callVars, pipeVars, cacheVars>>

notCache ==
  <<runVars, mergeVars, orchVars, retryVars, callVars, pipeVars, mainVars>>

\* A 429 answer without a Retry-After header.
NoHeader == <<"None">>

\* No answer of the remote service.
NoAnswer == [reply |-> "none", status |-> 0, retry_after |-> NoHeader]

\* No error: last_error before the first failure, raised before any raise.
NoError == [kind |-> "none", attempt |-> 0, answer |-> NoAnswer]

(***************************************************************************)
(* Inputs of the update runs.                                              *)
(***************************************************************************)
Names == {"mod-a", "mod-b"}

\* The pin of every record, and what the registries offer: an older
\* version, a newer one in patch scope and a newer one outside it.
PinnedVersions == {V101}

RegistryVersions == {V100, V102, V110}

\* A registry answer: a version list (possibly empty).
VersionLists == UNION {[1..n -> RegistryVersions] : n \in 0..MaxTags}

Manifests ==
  UNION {[1..n -> [name : Names, version : PinnedVersions]] :
           n \in 0..MaxComponents}

NoEntry == [present |-> FALSE, versions |-> <<>>]

\* The assignment taking the record out of the list.
SetVersionDropping(list, i, new_version) ==
  SubSeq(list, 1, i - 1) \o SubSeq(list, i + 1, Len(list))

\* app["version"] = new_version, component["version"] = new_version: the
\* record is changed in place.
SetVersion(list, i, new_version) == [list EXCEPT ![i].version = new_version]

\* The payload of process_applications_json is a JSON list.
Flat == [grouped |-> FALSE, sizes |-> <<>>]

\* The shapes of a payload with n records: a list, or an object with the
\* groups required (empty, or of one record) and optional, whose lists make
\* up flat in key order.
Groupings(prog, n) ==
  IF prog = "update-applications"
  THEN {Flat} \cup {[grouped |-> TRUE, sizes |-> <<k, n - k>>] :
                      k \in 0..(IF n = 0 THEN 0 ELSE 1)}
  ELSE {Flat}

\* grouped[key] of process_applications_json: group_items holds the very
\* dicts flat was extended with, so the group is a window on the list.
RECURSIVE GroupStart(_, _)
GroupStart(sizes, g) ==
  IF g = 1 THEN 1 ELSE GroupStart(sizes, g - 1) + sizes[g - 1]

Group(list, sizes, g) ==
  SubSeq(list, GroupStart(sizes, g), GroupStart(sizes, g) + sizes[g] - 1)

Idle == [index |-> 0, fetch |-> "none", versions |-> <<>>, candidate |-> None,
         image |-> "unchecked", imageName |-> "", imageVersion |-> None,
         wrote |-> FALSE]

(***************************************************************************)
(* update_applications: one iteration of its for-loop.                     *)
(***************************************************************************)
\* Lines 246-249: decide_update's result, None when it is falsy.
Chosen(new_version) == IF Falsy(new_version) THEN None ELSE new_version

\* Lines 239-249: the version adopted from a non-empty answer, or None.
AppCandidate(current, filtered) ==
  IF filtered = <<>> THEN None
  ELSE Chosen(decide_update(current, filtered, sort_order))

\* Lines 235-249: the version the iteration adopts, or None when it
\* continues to the next record without writing.
AppDecision(current, all_versions) ==
  IF all_versions = <<>> THEN None
  ELSE AppCandidate(current,
                    filter_versions(all_versions, current, filter_scope))

\* Lines 251-253: the assignment, when a version was chosen.
AppWrite(new_version, all_versions, how) ==
  /\ components' =
       IF new_version = None THEN components
       ELSE SetVersion(components, idx, new_version)
  /\ writes' = IF new_version = None THEN writes
               ELSE [writes EXCEPT ![idx] = @ + 1]
  /\ last' = [Idle EXCEPT !.index = idx, !.fetch = how,
                          !.versions = all_versions,
                          !.candidate = new_version,
                          !.wrote = new_version # None]
  /\ UNCHANGED failed

\* The iteration once fetch_app_versions has returned all_versions.
AppResolved(all_versions, how) ==
  AppWrite(AppDecision(components[idx].version, all_versions),
           all_versions, how)

\* fetch_app_versions raised (request error after the retries, or any other
\* exception): the except branch logs and continues.
AppFetchFailed ==
  /\ UNCHANGED <<components, writes, cache>>
  /\ failed' = failed \cup {idx}
  /\ last' = [Idle EXCEPT !.index = idx, !.fetch = "failed"]

\* fetch_app_versions(name) behind lru_cache: a hit answers from the cache
\* and makes no request; a miss asks the registry and caches a success.
AppFetch(name) ==
  IF cache[name].present
  THEN /\ AppResolved(cache[name].versions, "cached")
       /\ UNCHANGED cache
  ELSE \/ AppFetchFailed
       \/ \E versions \in VersionLists :
            /\ cache' = [cache EXCEPT
                           ![name] = [present |-> TRUE, versions |-> versions]]
            /\ AppResolved(versions, "fetched")

ProcessApplication ==
  /\ variant = "apps"
  /\ idx <= Len(components)
  /\ AppFetch(components[idx].name)
  /\ idx' = idx + 1
  /\ UNCHANGED <<variant, filter_scope, sort_order, original>>
  /\ UNCHANGED notRun

(***************************************************************************)
(* update_components: one iteration of its for-loop.  The whole body is    *)
(* inside try/except Exception, so a raise anywhere leaves the record as   *)
(* it was.                                                                 *)
(***************************************************************************)
\* Lines 268-275: the version decide_update chose, or None when the
\* iteration continues ("Up to date").
CompDecision(current_version, all_tags) ==
  Chosen(decide_update(current_version,
                       filter_versions(all_tags, current_version, filter_scope),
                       sort_order))

\* The assignment without the image guard.
CompAdoptUnguarded(new_version, exists) ==
  /\ components' = [components EXCEPT ![idx].version = new_version]
  /\ writes' = [writes EXCEPT ![idx] = @ + 1]

\* Lines 277-283: the image guard and the assignment, given the answer of
\* docker_image_exists(name, new_version).
CompAdopt(new_version, exists) ==
  /\ components' =
       IF exists THEN SetVersion(components, idx, new_version)
       ELSE components
  /\ writes' = IF exists THEN [writes EXCEPT ![idx] = @ + 1] ELSE writes

\* Lines 273-283 for the version new_version decide_update chose.
CompGuarded(new_version, all_tags) ==
  IF new_version = None
  THEN /\ UNCHANGED <<components, writes, failed>>
       /\ last' = [Idle EXCEPT !.index = idx, !.fetch = "fetched",
                               !.versions = all_tags]
  ELSE \E exists \in BOOLEAN :
         /\ CompAdopt(new_version, exists)
         /\ UNCHANGED failed
         /\ last' = [Idle EXCEPT
                       !.index = idx, !.fetch = "fetched",
                       !.versions = all_tags, !.candidate = new_version,
                       !.image = IF exists THEN "exists" ELSE "missing",
                       !.imageName = components[idx].name,
                       !.imageVersion = new_version,
                       !.wrote = exists]

\* fetch_repo_release_tags returned all_tags.
CompResolved(all_tags) ==
  CompGuarded(CompDecision(components[idx].version, all_tags), all_tags)

\* An except branch that adopts the newest version on offer instead of
\* keeping the record.
CompFailedDefaulting(how) ==
  /\ components' = [components EXCEPT ![idx].version = V102]
  /\ writes' = [writes EXCEPT ![idx] = @ + 1]
  /\ failed' = failed \cup {idx}
  /\ last' = [Idle EXCEPT !.index = idx, !.fetch = how]

\* fetch_repo_release_tags raised (repository or releases not answered with
\* 200, request error after the retries), or another exception was raised
\* before the assignment: the except branch logs and continues.
CompFailed(how) ==
  /\ UNCHANGED <<components, writes>>
  /\ failed' = failed \cup {idx}
  /\ last' = [Idle EXCEPT !.index = idx, !.fetch = how]

ProcessComponent ==
  /\ variant = "comps"
  /\ idx <= Len(components)
  /\ \/ CompFailed("failed")
     \/ CompFailed("error")
     \/ \E all_tags \in VersionLists : CompResolved(all_tags)
  /\ idx' = idx + 1
  /\ UNCHANGED <<variant, filter_scope, sort_order, original, cache>>
  /\ UNCHANGED notRun

(***************************************************************************)
(* The update runs: process_applications_json / main hand a validated     *)
(* manifest, scope and order to the run.                                   *)
(***************************************************************************)
\* The update runs do not touch the merge.
MergeIdle ==
  /\ package_json = [has_dependencies |-> FALSE, dependencies |-> <<>>]
  /\ updated_ui_report = <<>>
  /\ not_found_ui_report = <<>>
  /\ mpc = "ready"
  /\ consumed = 0
  /\ calls = 0
  /\ initial_dependencies = <<>>
  /\ applied = {}
  /\ last_module = [valid |-> FALSE, name |-> <<>>, version |-> <<>>]

\* The update runs hand no batch to an orchestrator.
OrchIdle ==
  /\ orchestrator = "ui"
  /\ applications = <<>>
  /\ futures = <<>>
  /\ submitted = 0
  /\ results = <<>>
  /\ opc = "returned"

\* The wrapper's invocations inside a run are folded into the run's fetch.
RetryIdle ==
  /\ client = "apps"
  /\ retries = 0
  /\ last_error = NoError
  /\ attempts = 0
  /\ waits = <<>>
  /\ rpc = "returned"
  /\ raised = NoError

\* No function call is pending.
\* A field of a JSON object: missing, a value that is no list, or a list.
NoField == [is |-> "missing", items |-> <<>>]

\* A parsed JSON payload that is neither an object nor a list.
NoPayload ==
  [kind |-> "scalar", applicationDescriptors |-> NoField, items |-> <<>>,
   applications |-> NoField, version |-> None]

\* No lookup of an image tag is made.
NoProbe == [login |-> "none", reply |-> "none", status |-> 0]

NoCall ==
  [fn |-> "none", version |-> <<>>, versions |-> <<>>, base |-> <<>>,
   scope |-> "major", order |-> "asc", payload |-> NoPayload,
   probe |-> NoProbe]

NoReturn == [done |-> FALSE, value |-> <<>>]

CallIdle ==
  /\ call = NoCall
  /\ ret = NoReturn
  /\ twin = NoReturn

\* No pipeline of fetch and merge is running.
PipeIdle ==
  /\ registry = <<>>
  /\ ui_modules = <<>>
  /\ ppc = "idle"

\* No sequence of cached calls is running.
CacheIdle ==
  /\ plan = <<>>
  /\ at = 1
  /\ lru = <<>>
  /\ latest = <<>>
  /\ down = {}
  /\ lookup = [name |-> 0, how |-> "none", versions |-> <<>>, held |-> FALSE]
  /\ tries = 0

\* The functions are called directly, not from a program's entry point.
MainIdle ==
  /\ program = "none"
  /\ config = "valid"
  /\ data = "valid"
  /\ output = "writable"
  /\ grouping = Flat
  /\ exit_code = -1
  /\ gpc = "idle"

InitRun ==
  /\ MergeIdle
  /\ OrchIdle
  /\ RetryIdle
  /\ CallIdle
  /\ PipeIdle
  /\ CacheIdle
  /\ MainIdle
  /\ variant \in {"apps", "comps"}
  /\ filter_scope \in FilterScopes
  /\ sort_order \in SortOrders
  /\ components \in Manifests
  /\ original = components
  /\ idx = 1
  /\ cache = [n \in Names |-> NoEntry]
  /\ writes = [i \in 1..Len(components) |-> 0]
  /\ failed = {}
  /\ last = Idle

NextRun == ProcessApplication \/ ProcessComponent

SpecRun == InitRun /\ [][NextRun]_vars

(***************************************************************************)
(* Properties of the update runs (SpecRun).                                *)
(***************************************************************************)
Range(f) == {f[i] : i \in DOMAIN f}

Done == idx > Len(components)

\* C1: in update_applications and update_components every record's version
\* field is assigned at most once per run; a value assigned is a member of
\* the version list fetched for that record, satisfies the configured scope
\* against the record's original version and has a triple strictly greater
\* than the original's; so every record's triple is >= its triple before
\* the run, and a record never assigned keeps its version.
C1_WriteOnceInScopeNewer ==
  /\ \A i \in 1..Len(components) :
       /\ writes[i] <= 1
       /\ (writes[i] = 0) => components[i].version = original[i].version
       /\ TupleLeq(ParseSemver(original[i].version),
                   ParseSemver(components[i].version))
  /\ last.wrote =>
       /\ writes[last.index] = 1
       /\ components[last.index].version = last.candidate
       /\ last.candidate \in Range(last.versions)
       /\ InScope(last.candidate, original[last.index].version, filter_scope)
       /\ TupleLess(ParseSemver(original[last.index].version),
                    ParseSemver(last.candidate))

\* C1 witness: a run has assigned a version although the fetched list also
\* held a newer version outside the scope.
C1_Witness ==
  /\ last.wrote
  /\ filter_scope = "patch"
  /\ V110 \in Range(last.versions)
  /\ components[last.index].version = V102

\* C6: when fetching a record's versions fails, or another exception is
\* raised while resolving it, the record's version after the run equals its
\* version before the run, and the loop goes on to the next record.
C6_FailureKeepsVersion ==
  /\ \A i \in failed :
       /\ i < idx
       /\ components[i].version = original[i].version
       /\ writes[i] = 0
  /\ last.fetch \in {"failed", "error"} =>
       /\ last.index \in failed
       /\ idx = last.index + 1
       /\ ~last.wrote

\* C6 witness: the first record's resolution failed and the second record
\* was nevertheless resolved and updated, in either variant.
C6_Witness ==
  /\ Done
  /\ 1 \in failed
  /\ last.index = 2
  /\ last.wrote
  /\ components[1].version = original[1].version

\* C7: update_components changes a version to a candidate only if
\* docker_image_exists answered true for that record's name and that exact
\* candidate; if it answered false the record keeps its original version
\* although a newer in-scope tag exists.
C7_ImageGuard ==
  variant = "comps" =>
    /\ last.wrote =>
         /\ last.image = "exists"
         /\ last.imageName = components[last.index].name
         /\ last.imageVersion = components[last.index].version
    /\ last.image = "missing" =>
         /\ components[last.index].version = original[last.index].version
         /\ last.candidate \in Range(last.versions)
         /\ is_newer(original[last.index].version, last.candidate)

\* C7 witness: the image check answered false for a newer in-scope tag and
\* the record was left at its original version.
C7_Witness ==
  /\ variant = "comps"
  /\ last.image = "missing"
  /\ last.candidate = V102
  /\ components[last.index].version = V101

(***************************************************************************)
(* update_package_json.  A call parses its inputs, makes sure the manifest *)
(* has a dependencies section, resets the two reports and then processes   *)
(* the entries of ui_modules one by one.  The entries are drawn as the     *)
(* loop reaches them.                                                      *)
(***************************************************************************)
V102rc == <<"1", ".", "0", ".", "2", "-", "r", "c">>

KeyA == AtFolioSlash \o <<"a">>

KeyB == AtFolioSlash \o <<"b">>

ModuleA == FolioUnderscore \o <<"a">>

ModuleX == FolioUnderscore \o <<"x">>

\* The dependency maps a manifest arrives with: every pin is 1.0.1.
DependencyMaps == UNION {[keys -> {V101}] : keys \in {{}, {KeyA}, {KeyA, KeyB}}}

\* Entries of ui_modules: candidates lower than, equal to, higher than and
\* (by its leading digits) higher than the pins, for a managed module and an
\* unmanaged one, and an entry that is no {name, version} object.
InvalidModule == [valid |-> FALSE, name |-> <<>>, version |-> <<>>]

Modules ==
  [valid : {TRUE}, name : {ModuleA}, version : {V100, V101, V102, V102rc}]
    \cup [valid : {TRUE}, name : {ModuleX}, version : {V100, V102}]
    \cup {InvalidModule}

\* dict[key] = value
SetItem(dict, key, value) ==
  [k \in DOMAIN dict \cup {key} |-> IF k = key THEN value ELSE dict[k]]

\* Line 154 with the comparison reversed, and with the same version let in.
ShouldOverwriteLower(version_comparison) == version_comparison < 0

ShouldOverwriteSame(version_comparison) == version_comparison >= 0

\* Line 154: whether the candidate replaces the pin.

ShouldOverwrite(version_comparison) == version_comparison > 0

\* Lines 149-172 with old_version read after the pin was replaced.
MergeExistingStaleOld(module, package_name, old_version) ==
  IF ShouldOverwrite(compare_versions(module.version, old_version))
  THEN /\ package_json' =
            [package_json EXCEPT !.dependencies[package_name] = module.version]
       /\ updated_ui_report' =
            Append(updated_ui_report,
                   [name |-> module.name,
                    change |-> [old |-> module.version,
                                new |-> module.version]])
       /\ UNCHANGED not_found_ui_report
  ELSE UNCHANGED <<package_json, updated_ui_report, not_found_ui_report>>

\* Lines 149-172: the dependency exists.
MergeExisting(module, package_name, old_version) ==
  IF ShouldOverwrite(compare_versions(module.version, old_version))
  THEN /\ package_json' =
            [package_json EXCEPT !.dependencies[package_name] = module.version]
       /\ updated_ui_report' =
            Append(updated_ui_report,
                   [name |-> module.name,
                    change |-> [old |-> old_version, new |-> module.version]])
       /\ UNCHANGED not_found_ui_report
  ELSE UNCHANGED <<package_json, updated_ui_report, not_found_ui_report>>

\* Lines 174-177 with the missing dependency introduced.
MergeNotFoundAdding(module) ==
  /\ package_json' =
       [package_json EXCEPT
          !.dependencies = SetItem(@, convert_ui_module_name(module.name),
                                   module.version)]
  /\ not_found_ui_report' =
       SetItem(not_found_ui_report, module.name, module.version)
  /\ UNCHANGED updated_ui_report

\* Lines 174-177: the dependency does not exist.
MergeNotFound(module) ==
  /\ not_found_ui_report' =
       SetItem(not_found_ui_report, module.name, module.version)
  /\ UNCHANGED <<package_json, updated_ui_report>>

\* Lines 143-177 for a {name, version} entry.
MergeModule(module, package_name) ==
  IF package_name \in DOMAIN package_json.dependencies
  THEN MergeExisting(module, package_name,
                     package_json.dependencies[package_name])
  ELSE MergeNotFound(module)

\* The manifest handed on as it was parsed.
EnsureDependenciesSkipped(manifest) == manifest

\* Lines 125-126: a manifest without a dependencies section gets an empty
\* one.
EnsureDependencies(manifest) == [manifest EXCEPT !.has_dependencies = TRUE]

\* Lines 121-130: the start of a call.  A later call is handed the manifest
\* the call before it returned.
MergeCall ==
  /\ mpc \in {"ready", "returned"}
  /\ calls < MaxCalls
  /\ package_json' = EnsureDependencies(package_json)
  /\ updated_ui_report' = <<>>
  /\ not_found_ui_report' = <<>>
  /\ mpc' = "loop"
  /\ consumed' = 0
  /\ calls' = calls + 1
  /\ UNCHANGED <<initial_dependencies, applied, last_module>>
  /\ UNCHANGED notMerge

\* Lines 134-177 for the entry module of ui_modules.
MergeEntry(module) ==
  /\ IF module.valid
     THEN MergeModule(module, convert_ui_module_name(module.name))
     ELSE UNCHANGED <<package_json, updated_ui_report, not_found_ui_report>>
  /\ applied' = applied \cup {module}
  /\ last_module' = module
  /\ consumed' = consumed + 1
  /\ UNCHANGED <<mpc, calls, initial_dependencies>>

\* Lines 133-177: one iteration of the for-loop.
MergeStep ==
  /\ mpc = "loop"
  /\ consumed < MaxCandidates
  /\ \E module \in Modules : MergeEntry(module)
  /\ UNCHANGED notMerge

\* Lines 179-183: ui_modules is exhausted and the call returns.
MergeReturn ==
  /\ mpc = "loop"
  /\ mpc' = "returned"
  /\ UNCHANGED <<package_json, updated_ui_report, not_found_ui_report,
                 consumed, calls, initial_dependencies, applied, last_module>>
  /\ UNCHANGED notMerge

\* The merge does not touch the update runs.
RunIdle ==
  /\ variant = "apps"
  /\ filter_scope = "patch"
  /\ sort_order = "asc"
  /\ components = <<>>
  /\ original = <<>>
  /\ idx = 1
  /\ cache = [n \in Names |-> NoEntry]
  /\ writes = <<>>
  /\ failed = {}
  /\ last = Idle

InitMerge ==
  /\ RunIdle
  /\ OrchIdle
  /\ RetryIdle
  /\ CallIdle
  /\ PipeIdle
  /\ CacheIdle
  /\ MainIdle
  /\ \E dependencies \in DependencyMaps :
       /\ initial_dependencies = dependencies
       /\ package_json \in
            {[has_dependencies |-> TRUE, dependencies |-> dependencies]}
            \cup (IF dependencies = <<>>
                  THEN {[has_dependencies |-> FALSE, dependencies |-> <<>>]}
                  ELSE {})
  /\ updated_ui_report = <<>>
  /\ not_found_ui_report = <<>>
  /\ mpc = "ready"
  /\ consumed = 0
  /\ calls = 0
  /\ applied = {}
  /\ last_module = InvalidModule

NextMerge == MergeCall \/ MergeStep \/ MergeReturn

SpecMerge == InitMerge /\ [][NextMerge]_vars

(***************************************************************************)
(* The descriptor orchestrators: fetch_multiple_descriptors                *)
(* (collect_descriptors.py) and fetch_all_descriptors                      *)
(* (fetch-updated-ui-modules.py).  The dict comprehension submits one      *)
(* fetch per record to a ThreadPoolExecutor, as_completed hands the        *)
(* futures back in completion order, and the with-block is left when the   *)
(* workers have finished.                                                  *)
(***************************************************************************)
\* A key the record does not have.
Absent == "<absent>"

\* The records a batch is made of; one of them lacks its name.
AppRecords ==
  [name : {"app-a", "app-b"}, version : {"1.0.0"}]
    \cup {[name |-> Absent, version |-> "1.0.0"]}

Batches == UNION {[1..n -> AppRecords] : n \in 0..MaxApps}

\* app['name'], app['version'] raise KeyError on a record lacking the key.
KeyError(app) == app.name = Absent \/ app.version = Absent

\* app.get(key) is None on a record lacking the key; the URL then reads None.
get(app, key) == IF app[key] = Absent THEN "None" ELSE app[key]

\* What a fetch returns: None, or the descriptor FAR holds under the id the
\* request named.
NoDescriptor == [found |-> FALSE, id |-> <<"", "">>]

Descriptor(app_name, app_version) ==
  [found |-> TRUE, id |-> <<app_name, app_version>>]

\* executor.submit(fetch, url, name, version): a future bound to its arguments.
Future(app_name, app_version) ==
  [state |-> "pending", name |-> app_name, version |-> app_version,
   descriptor |-> NoDescriptor]

Running == {i \in 1..Len(futures) : futures[i].state = "running"}

Pending == {i \in 1..Len(futures) : futures[i].state = "pending"}

Collected == {results[k].app : k \in 1..Len(results)}

\* One step of the dict comprehension: the subscripts (collect) or the gets
\* (ui) are evaluated in the orchestrator's thread, then the fetch is
\* submitted.  A KeyError leaves the comprehension and the with-block.
OrchSubmit ==
  /\ opc = "submit"
  /\ IF orchestrator = "collect" /\ KeyError(applications[submitted + 1])
     THEN /\ opc' = "unwinding"
          /\ UNCHANGED <<futures, submitted>>
     ELSE /\ futures' =
               Append(futures,
                      Future(get(applications[submitted + 1], "name"),
                             get(applications[submitted + 1], "version")))
          /\ submitted' = submitted + 1
          /\ opc' = IF submitted + 1 = Len(applications)
                    THEN "collect" ELSE "submit"
  /\ UNCHANGED <<orchestrator, applications, results>>
  /\ UNCHANGED notOrch

\* A free worker takes the oldest queued fetch.
WorkerStart ==
  /\ Pending # {}
  /\ Cardinality(Running) < MaxWorkers
  /\ \E i \in Pending :
       /\ \A j \in Pending : i <= j
       /\ futures' = [futures EXCEPT ![i].state = "running"]
  /\ UNCHANGED <<orchestrator, applications, submitted, results, opc>>
  /\ UNCHANGED notOrch

\* fetch_application_descriptor / fetch_app_descriptor returns: the
\* descriptor, or None after any exception.
WorkerFinish ==
  /\ \E i \in Running :
       \E descriptor \in {NoDescriptor,
                          Descriptor(futures[i].name, futures[i].version)} :
         futures' = [futures EXCEPT ![i].state = "done",
                                    ![i].descriptor = descriptor]
  /\ UNCHANGED <<orchestrator, applications, submitted, results, opc>>
  /\ UNCHANGED notOrch

\* The same return when the registry's answer to every request is fixed.
WorkerFinishFixed ==
  /\ \E i \in Running :
       futures' =
         [futures EXCEPT
            ![i].state = "done",
            ![i].descriptor =
               IF registry[futures[i].name].found
               THEN Descriptor(futures[i].name, futures[i].version)
               ELSE NoDescriptor]
  /\ UNCHANGED <<orchestrator, applications, submitted, results, opc>>
  /\ UNCHANGED notOrch

\* The loop body with the pair taken from the submission order instead of
\* future_to_app.
OrchAppendInOrder(i) ==
  results' = Append(results, [app |-> Len(results) + 1,
                              descriptor |-> futures[i].descriptor])

\* The loop body: app = future_to_app[future]; results.append((app,
\* future.result())).  The record is named by its position in applications.
OrchAppend(i) ==
  results' = Append(results, [app |-> i,
                              descriptor |-> futures[i].descriptor])

\* as_completed yields a finished future that it has not yielded yet.
OrchCollect ==
  /\ opc = "collect"
  /\ \E i \in 1..Len(futures) :
       /\ futures[i].state = "done"
       /\ i \notin Collected
       /\ OrchAppend(i)
  /\ UNCHANGED <<orchestrator, applications, futures, submitted, opc>>
  /\ UNCHANGED notOrch

\* as_completed is exhausted, the with-block is left and results returned.
OrchReturn ==
  /\ opc = "collect"
  /\ Collected = 1..Len(futures)
  /\ opc' = "returned"
  /\ UNCHANGED <<orchestrator, applications, futures, submitted, results>>
  /\ UNCHANGED notOrch

\* The with-block's exit waits for the submitted fetches, then the KeyError
\* reaches the caller and the results are lost.
OrchUnwind ==
  /\ opc = "unwinding"
  /\ \A i \in 1..Len(futures) : futures[i].state = "done"
  /\ opc' = "raised"
  /\ UNCHANGED <<orchestrator, applications, futures, submitted, results>>
  /\ UNCHANGED notOrch

InitOrch ==
  /\ RunIdle
  /\ MergeIdle
  /\ RetryIdle
  /\ CallIdle
  /\ PipeIdle
  /\ CacheIdle
  /\ MainIdle
  /\ orchestrator \in {"collect", "ui"}
  /\ applications \in Batches
  /\ futures = <<>>
  /\ submitted = 0
  /\ results = <<>>
  /\ opc = IF applications = <<>> THEN "collect" ELSE "submit"

NextOrch ==
  OrchSubmit \/ WorkerStart \/ WorkerFinish \/ OrchCollect \/ OrchReturn
    \/ OrchUnwind

SpecOrch == InitOrch /\ [][NextOrch]_vars

(***************************************************************************)
(* with_retries: one invocation of the wrapper around a remote call.       *)
(***************************************************************************)
MAX_RETRIES == 3

RETRY_BACKOFF_BASE == 2

RETRY_INITIAL_WAIT == 1

RECURSIVE Pow(_, _)
Pow(base, exp) == IF exp = 0 THEN 1 ELSE base * Pow(base, exp - 1)

\* The backoff growing by the base per attempt instead of by its power.
BackoffLinear(n) == RETRY_INITIAL_WAIT * RETRY_BACKOFF_BASE * n

\* The whole seconds of wait_time; time.time() % 1 adds less than a second.
Backoff(n) == RETRY_INITIAL_WAIT * Pow(RETRY_BACKOFF_BASE, n)

\* The Retry-After header of a 429 answer: missing, a number of seconds, a
\* negative number, or an HTTP date.
HttpDate ==
  <<"W", "e", "d", ",", " ", "2", "1", " ", "O", "c", "t", " ", "2", "0",
    "1", "5", " ", "0", "7", ":", "2", "8", ":", "0", "0", " ", "G", "M",
    "T">>

RetryAfterHeaders == {NoHeader, <<"2">>, <<"-", "1">>, HttpDate}

\* The end of the except block and of the loop: retries += 1, the loop test
\* and, past it, raise last_error.
RetryNext(exc, slept) ==
  /\ last_error' = exc
  /\ waits' = slept
  /\ retries' = retries + 1
  /\ rpc' = IF retries + 1 <= MAX_RETRIES THEN "calling" ELSE "raised"
  /\ raised' = IF retries + 1 <= MAX_RETRIES THEN raised ELSE exc

\* int() of the header, or time.sleep of a negative number, raises
\* ValueError inside the except block; it leaves the wrapper.
RetryHandlerRaises(exc) ==
  /\ last_error' = exc
  /\ rpc' = "raised"
  /\ raised' = [kind |-> "value_error", attempt |-> exc.attempt,
                 answer |-> exc.answer]
  /\ UNCHANGED <<retries, waits>>

\* The 429 branch: retry_after = int(headers.get('Retry-After', default)).
RateLimited(exc, header) ==
  IF header = NoHeader
  THEN RetryNext(exc, Append(waits, RETRY_INITIAL_WAIT))
  ELSE IF IntLiteralOK(header) /\ IntValue(header) >= 0
       THEN RetryNext(exc, Append(waits, IntValue(header)))
       ELSE RetryHandlerRaises(exc)

\* The other branch: exponential backoff, slept unless this was the last try.
BackedOff(exc) ==
  RetryNext(exc, IF retries < MAX_RETRIES
                 THEN Append(waits, Backoff(retries)) ELSE waits)

\* What the remote service does with one request: it answers with a body
\* the client accepts, does not answer, answers 200 with a body that is no
\* JSON, or answers with an error status.
Answers ==
  {[reply |-> "ok", status |-> 200, retry_after |-> NoHeader],
   [reply |-> "network", status |-> 0, retry_after |-> NoHeader],
   [reply |-> "malformed", status |-> 200, retry_after |-> NoHeader],
   [reply |-> "status", status |-> 404, retry_after |-> NoHeader],
   [reply |-> "status", status |-> 503, retry_after |-> NoHeader]}
    \cup [reply : {"status"}, status : {429}, retry_after : RetryAfterHeaders]

\* The class of the exception func raises on an answer.  The session's get
\* raises a RequestException when there is no answer.  fetch_app_versions
\* calls raise_for_status (HTTPError, carrying the response);
\* fetch_repo_release_tags raises RuntimeError on every status but 200.
\* response.json() raises requests' JSONDecodeError, a RequestException in
\* requests 2.27 and later and a plain ValueError before.
Raises(fetcher, answer) ==
  CASE answer.reply = "network" -> {"RequestException"}
    [] answer.reply = "malformed" -> {"RequestException", "ValueError"}
    [] OTHER -> IF fetcher = "apps" THEN {"HTTPError"} ELSE {"RuntimeError"}

\* An exception that is no RequestException is not caught by the wrapper.
Propagates(exc) ==
  /\ rpc' = "raised"
  /\ raised' = exc
  /\ UNCHANGED <<retries, last_error, waits>>

\* The try/except of the loop body for the exception func raised.
Handle(class, answer) ==
  IF class \in {"RuntimeError", "ValueError"}
  THEN Propagates([kind |-> "other", attempt |-> attempts + 1,
                   answer |-> answer])
  ELSE IF class = "HTTPError" /\ answer.status = 429
       THEN RateLimited([kind |-> "rate_limited", attempt |-> attempts + 1,
                         answer |-> answer], answer.retry_after)
       ELSE BackedOff([kind |-> "request", attempt |-> attempts + 1,
                       answer |-> answer])

\* One pass of the while-loop: func is called and returns, or raises.
RetryAttempt ==
  /\ rpc = "calling"
  /\ attempts' = attempts + 1
  /\ \E answer \in Answers :
       IF answer.reply = "ok"
       THEN /\ rpc' = "returned"
            /\ UNCHANGED <<retries, last_error, waits, raised>>
       ELSE \E class \in Raises(client, answer) : Handle(class, answer)
  /\ UNCHANGED client
  /\ UNCHANGED notRetry

InitRetry ==
  /\ RunIdle
  /\ MergeIdle
  /\ OrchIdle
  /\ CallIdle
  /\ PipeIdle
  /\ CacheIdle
  /\ MainIdle
  /\ client \in {"apps", "tags"}
  /\ retries = 0
  /\ last_error = NoError
  /\ attempts = 0
  /\ waits = <<>>
  /\ rpc = "calling"
  /\ raised = NoError

NextRetry == RetryAttempt

SpecRetry == InitRetry /\ [][NextRetry]_vars


(***************************************************************************)
(* The pure functions of the update scripts, one call at a time:           *)
(* parse_semver on a string, filter_versions on a version list, base and   *)
(* scope, decide_update on a current version, candidate list and order,    *)
(* then once more with the other order.                                    *)
(***************************************************************************)
\* The characters of the strings handed to parse_semver: a digit, the
\* separator, a sign, a blank and a letter.
Alphabet == {"1", ".", "-", " ", "a"}

Strings == UNION {[1..n -> Alphabet] : n \in 0..MaxChars} \cup {None}

\* The versions of the lists handed to filter_versions and decide_update:
\* 1.1 and 1.1.0 parse to the same triple.
ListVersions == {V100, V102, V110, V11, V200}

Lists == UNION {[1..n -> ListVersions] : n \in 0..MaxTags}

\* The prefixes a version is written with, and the versions written with
\* them: three segments, a fourth segment, a letter inside a segment.
Prefixes == {<<>>, <<"v">>, <<"V">>, <<"^">>, <<"~">>}

V1011 == <<"1", ".", "0", ".", "1", ".", "1">>

V101a == <<"1", ".", "0", ".", "1", "a">>

Spelled ==
  {prefix \o body : prefix \in Prefixes, body \in {V100, V101, V1011, V101a}}

\* The elements of a JSON list: objects with a version, and None for an
\* element that is no object with a version.
ItemLists == UNION {[1..n -> {V100, V102, None}] : n \in 0..MaxTags}

Fields ==
  {NoField, [is |-> "scalar", items |-> <<>>]}
    \cup [is : {"list"}, items : ItemLists]

\* The payloads response.json() returns: an object, a list, anything else.
Payloads ==
  [kind : {"dict"}, applicationDescriptors : Fields, items : {<<>>},
   applications : Fields, version : {None, V110}]
    \cup [kind : {"list"}, applicationDescriptors : {NoField},
          items : ItemLists, applications : {NoField}, version : {None}]
    \cup {NoPayload}

\* What Docker Hub does with the login and with the tag lookup of one image
\* check.  The login is not made (no credentials), answers 200 with a token,
\* answers another status, or fails; the lookup is answered with a status,
\* or the connection fails or times out.
Probes ==
  [login : {"none", "token", "denied", "failed"}, reply : {"answered"},
   status : {200, 204, 301, 401, 404, 429, 500}]
    \cup [login : {"none", "token", "denied", "failed"},
          reply : {"ConnectionError", "Timeout"}, status : {0}]

\* The classes requests raises for a request that got no answer; both derive
\* from RequestException.
RequestExceptions == {"ConnectionError", "Timeout"}

\* The status test taking every answer below 400 for success.
StatusOKLenient(status_code) == status_code < 400

\* resp.status_code == 200
StatusOK(status_code) == status_code = 200

\* What an image check hands its caller: a boolean, or an exception.
ImageAnswer(exists) == [raised |-> FALSE, exists |-> exists]

ImageRaises == [raised |-> TRUE, exists |-> FALSE]

\* update-eureka-components.py: docker_hub_auth_token swallows a failed or
\* denied login and the request then goes out without a token; the lookup
\* is made inside try/except Exception.  The function raises nothing, so
\* the with_retries wrapper around it returns its value at the first pass.
docker_image_exists(probe) ==
  IF probe.reply = "answered"
  THEN ImageAnswer(StatusOK(probe.status))
  ELSE ImageAnswer(FALSE)

\* platformcheck.py: no login; the lookup is made inside
\* try/except requests.RequestException.
check_docker_image_exists(probe) ==
  IF probe.reply = "answered"
  THEN ImageAnswer(StatusOK(probe.status))
  ELSE IF probe.reply \in RequestExceptions
       THEN ImageAnswer(FALSE)
       ELSE ImageRaises

(***************************************************************************)
(* Version helpers of platformcheck.py.                                    *)
(***************************************************************************)
V1 == <<"1">>

\* The versions platformcheck meets: one, two and three segments, and a
\* segment that is no number.
CheckVersions == {V1, V11, V100, V101, V101a, V102, V110}

CheckLists == UNION {[1..n -> CheckVersions] : n \in 0..MaxTags}

\* str.isdigit(): at least one character, all of them digits.
isdigit(part) == part # <<>> /\ \A i \in 1..Len(part) : IsDigit(part[i])

\* int(parts[i]) if parts[i].isdigit() else 0
IntIfDigit(part) == IF isdigit(part) THEN DigitsValue(part, 0) ELSE 0

\* Lines 136-141: whether the version is appended to patch_versions.
PatchOf(parts, base_parts) ==
  /\ Len(parts) >= 2
  /\ IntIfDigit(parts[1]) = IntIfDigit(base_parts[1])
  /\ IntIfDigit(parts[2]) = IntIfDigit(base_parts[2])

get_patch_versions(versions, base_version) ==
  IF versions = <<>> \/ Falsy(base_version) THEN <<>>
  ELSE IF Len(split(base_version, ".")) < 2 THEN <<>>
  ELSE SelectSeq(versions,
                 LAMBDA v : PatchOf(split(v, "."), split(base_version, ".")))

\* str.replace(old, new) on single characters.
replace(str, old, new) ==
  [i \in 1..Len(str) |-> IF str[i] = old THEN new ELSE str[i]]

\* str.lower(): V is the one upper-case letter the versions here are
\* written with.
lower(str) == [i \in 1..Len(str) |-> IF str[i] = "V" THEN "v" ELSE str[i]]

\* ord(c) of the characters versions are written with.
ord(c) ==
  CASE c = "-" -> 45 [] c = "." -> 46 [] c = "0" -> 48 [] c = "1" -> 49
    [] c = "2" -> 50 [] c = "3" -> 51 [] c = "4" -> 52 [] c = "5" -> 53
    [] c = "6" -> 54 [] c = "7" -> 55 [] c = "8" -> 56 [] c = "9" -> 57
    [] c = "V" -> 86 [] c = "^" -> 94 [] c = "a" -> 97 [] c = "c" -> 99
    [] c = "r" -> 114 [] c = "v" -> 118 [] c = "~" -> 126

\* str < str: by the first character that differs, a prefix coming first.
RECURSIVE StrLess(_, _)
StrLess(a, b) ==
  IF a = <<>> \/ b = <<>> THEN Len(a) < Len(b)
  ELSE IF a[1] # b[1] THEN ord(a[1]) < ord(b[1])
  ELSE StrLess(Tail(a), Tail(b))

\* Lines 104-108: a part of digits becomes an int, another part a
\* lower-case str.
ParsedPart(part) ==
  IF isdigit(part) THEN [int |-> TRUE, n |-> DigitsValue(part, 0), s |-> <<>>]
  ELSE [int |-> FALSE, n |-> 0, s |-> lower(part)]

parse_version(version) ==
  [i \in 1..Len(split(replace(version, "-", "."), ".")) |->
     ParsedPart(split(replace(version, "-", "."), ".")[i])]

\* list < list: the first items that differ decide, and an int against a
\* str raises TypeError; without such items the shorter list is less.
RECURSIVE ListCompare(_, _)
ListCompare(a, b) ==
  IF a = <<>> \/ b = <<>>
  THEN (IF Len(a) < Len(b) THEN "less"
        ELSE IF Len(a) > Len(b) THEN "greater" ELSE "equal")
  ELSE IF a[1] = b[1] THEN ListCompare(Tail(a), Tail(b))
  ELSE IF a[1].int # b[1].int THEN "TypeError"
  ELSE IF a[1].int THEN (IF a[1].n < b[1].n THEN "less" ELSE "greater")
  ELSE IF StrLess(a[1].s, b[1].s) THEN "less" ELSE "greater"

KeyLess(v, w) == ListCompare(parse_version(v), parse_version(w)) = "less"

\* The order of a sort: by the key parse_version, or of the strings.
Less(by, v, w) == IF by = "key" THEN KeyLess(v, w) ELSE StrLess(v, w)

\* A stable descending sort by insertion: the item goes before the first
\* item that is less than it.
RECURSIVE InsertDescending(_, _, _)
InsertDescending(v, lst, by) ==
  IF lst = <<>> THEN <<v>>
  ELSE IF Less(by, lst[1], v) THEN <<v>> \o lst
  ELSE <<lst[1]>> \o InsertDescending(v, Tail(lst), by)

RECURSIVE SortedDescending(_, _)
SortedDescending(lst, by) ==
  IF lst = <<>> THEN <<>>
  ELSE InsertDescending(lst[Len(lst)],
                        SortedDescending(SubSeq(lst, 1, Len(lst) - 1), by),
                        by)

\* Two versions of the list whose keys cannot be compared.
Incomparable(versions) ==
  \E i, j \in 1..Len(versions) :
    ListCompare(parse_version(versions[i]), parse_version(versions[j]))
      = "TypeError"

\* The orders that put no version before one with a greater key.
Descending(versions) ==
  {[i \in 1..Len(versions) |-> versions[p[i]]] :
     p \in {q \in Permutations(1..Len(versions)) :
              \A i, j \in 1..Len(versions) :
                i < j => ~KeyLess(versions[q[i]], versions[q[j]])}}

\* except (ValueError, TypeError): sorted(versions, reverse=True)
SortedAsStrings(versions) == SortedDescending(versions, "str")

\* sort_versions: the lists it can return.  sorted(key=parse_version,
\* reverse=True) raises TypeError when it compares two keys that cannot be
\* compared; a list of two is compared once, and in a longer list the sort
\* may or may not come to compare the pair.
sort_versions(versions) ==
  IF versions = <<>> THEN {<<>>}
  ELSE IF ~Incomparable(versions)
  THEN {SortedDescending(versions, "key")}
  ELSE {SortedAsStrings(versions)}
         \cup (IF Len(versions) <= 2 THEN {} ELSE Descending(versions))

\* What get_latest_version returns.
Latest(version, has_update) == [version |-> version, has_update |-> has_update]

\* Lines 161-168: latest != current_version and parse_version(latest) >
\* parse_version(current_version); a TypeError of the comparison is passed.
IsLater(newest, current_version) ==
  /\ newest # current_version
  /\ ListCompare(parse_version(newest), parse_version(current_version))
       = "greater"

\* Lines 157-170 for the list sort_versions returned.
LatestOf(current_version, sorted_patches) ==
  IF IsLater(sorted_patches[1], current_version)
  THEN Latest(sorted_patches[1], TRUE)
  ELSE Latest(current_version, FALSE)

\* get_latest_version: the results it can return.
get_latest_version(current_version, available_versions) ==
  IF available_versions = <<>>
       \/ get_patch_versions(available_versions, current_version) = <<>>
  THEN {Latest(current_version, FALSE)}
  ELSE {LatestOf(current_version, sorted_patches) :
          sorted_patches \in
            sort_versions(get_patch_versions(available_versions,
                                             current_version))}

Calls ==
  [fn : {"parse_semver"}, version : Strings \cup Spelled, versions : {<<>>},
   base : {<<>>}, scope : {"major"}, order : {"asc"}, payload : {NoPayload}, probe : {NoProbe}]
    \cup [fn : {"is_newer", "compare_versions"}, version : Spelled,
          versions : {<<>>}, base : Spelled, scope : {"major"},
          order : {"asc"}, payload : {NoPayload}, probe : {NoProbe}]
    \cup [fn : {"filter_versions"}, version : {<<>>}, versions : Lists,
          base : {<<>>, None, V101}, scope : FilterScopes, order : {"asc"},
          payload : {NoPayload}, probe : {NoProbe}]
    \cup [fn : {"decide_update"}, version : {V101, V110}, versions : Lists,
          base : {<<>>}, scope : {"major"}, order : SortOrders,
          payload : {NoPayload}, probe : {NoProbe}]
    \cup [fn : {"fetch_app_versions"}, version : {<<>>}, versions : {<<>>},
          base : {<<>>}, scope : {"major"}, order : {"asc"},
          payload : Payloads, probe : {NoProbe}]
    \cup [fn : {"docker_image_exists", "check_docker_image_exists"},
          version : {<<>>}, versions : {<<>>}, base : {<<>>},
          scope : {"major"}, order : {"asc"}, payload : {NoPayload},
          probe : Probes]
    \cup [fn : {"get_patch_versions", "get_latest_version"},
          version : {<<>>}, versions : CheckLists, base : CheckVersions,
          scope : {"patch"}, order : {"desc"}, payload : {NoPayload},
          probe : {NoProbe}]

\* Lines 145-147: the versions of the elements that are objects with one.
ItemVersions(items) == SelectSeq(items, LAMBDA item : item # None)

\* Lines 142-147: the primary extraction.
PrimaryVersions(payload) ==
  IF payload.kind = "dict" /\ payload.applicationDescriptors.is = "list"
  THEN ItemVersions(payload.applicationDescriptors.items)
  ELSE <<>>

\* Lines 151-162: the fallbacks, entered when the primary list is empty.
FallbackVersions(payload) ==
  IF payload.kind = "list" THEN ItemVersions(payload.items)
  ELSE IF payload.kind = "dict"
  THEN IF payload.applications.is = "list"
       THEN ItemVersions(payload.applications.items)
       ELSE IF payload.version # None THEN <<payload.version>> ELSE <<>>
  ELSE <<>>

\* Lines 139-165: what fetch_app_versions returns for a parsed payload.
ExtractVersions(payload) ==
  IF PrimaryVersions(payload) # <<>> THEN PrimaryVersions(payload)
  ELSE FallbackVersions(payload)

Returned(value) == [done |-> TRUE, value |-> value]

OtherOrder(order) == IF order = "asc" THEN "desc" ELSE "asc"

CallParseSemver ==
  /\ call.fn = "parse_semver"
  /\ ~ret.done
  /\ ret' = Returned(parse_semver(call.version))
  /\ UNCHANGED <<call, twin>>
  /\ UNCHANGED notCall

CallFilterVersions ==
  /\ call.fn = "filter_versions"
  /\ ~ret.done
  /\ ret' = Returned(filter_versions(call.versions, call.base, call.scope))
  /\ UNCHANGED <<call, twin>>
  /\ UNCHANGED notCall

CallDecideUpdate ==
  /\ call.fn = "decide_update"
  /\ ~ret.done
  /\ ret' = Returned(decide_update(call.version, call.versions, call.order))
  /\ UNCHANGED <<call, twin>>
  /\ UNCHANGED notCall

\* is_newer(current = base, candidate = version).
CallIsNewer ==
  /\ call.fn = "is_newer"
  /\ ~ret.done
  /\ ret' = Returned(is_newer(call.base, call.version))
  /\ UNCHANGED <<call, twin>>
  /\ UNCHANGED notCall

\* compare_versions(version1 = version, version2 = base).
CallCompareVersions ==
  /\ call.fn = "compare_versions"
  /\ ~ret.done
  /\ ret' = Returned(compare_versions(call.version, call.base))
  /\ UNCHANGED <<call, twin>>
  /\ UNCHANGED notCall

\* fetch_app_versions once response.json() has returned the payload.
CallFetchAppVersions ==
  /\ call.fn = "fetch_app_versions"
  /\ ~ret.done
  /\ ret' = Returned(ExtractVersions(call.payload))
  /\ UNCHANGED <<call, twin>>
  /\ UNCHANGED notCall

\* One image check by update-eureka-components.py.
CallDockerImageExists ==
  /\ call.fn = "docker_image_exists"
  /\ ~ret.done
  /\ ret' = Returned(docker_image_exists(call.probe))
  /\ UNCHANGED <<call, twin>>
  /\ UNCHANGED notCall

\* One image check by platformcheck.py.
CallCheckDockerImageExists ==
  /\ call.fn = "check_docker_image_exists"
  /\ ~ret.done
  /\ ret' = Returned(check_docker_image_exists(call.probe))
  /\ UNCHANGED <<call, twin>>
  /\ UNCHANGED notCall

\* platformcheck's patch filter on a list and a base version.
CallGetPatchVersions ==
  /\ call.fn = "get_patch_versions"
  /\ ~ret.done
  /\ ret' = Returned(get_patch_versions(call.versions, call.base))
  /\ UNCHANGED <<call, twin>>
  /\ UNCHANGED notCall

\* The update scripts' filter on the same list and base, with scope patch.
CallFilterVersionsPatch ==
  /\ call.fn = "get_patch_versions"
  /\ ret.done
  /\ ~twin.done
  /\ twin' = Returned(filter_versions(call.versions, call.base, "patch"))
  /\ UNCHANGED <<call, ret>>
  /\ UNCHANGED notCall

\* platformcheck's choice of the latest version for a component.
CallGetLatestVersion ==
  /\ call.fn = "get_latest_version"
  /\ ~ret.done
  /\ \E result \in get_latest_version(call.base, call.versions) :
       ret' = Returned(result)
  /\ UNCHANGED <<call, twin>>
  /\ UNCHANGED notCall

\* The same call with the other sort order.
CallDecideUpdateAgain ==
  /\ call.fn = "decide_update"
  /\ ret.done
  /\ ~twin.done
  /\ twin' = Returned(decide_update(call.version, call.versions,
                                    OtherOrder(call.order)))
  /\ UNCHANGED <<call, ret>>
  /\ UNCHANGED notCall

InitCall ==
  /\ RunIdle
  /\ MergeIdle
  /\ OrchIdle
  /\ RetryIdle
  /\ PipeIdle
  /\ CacheIdle
  /\ MainIdle
  /\ call \in Calls
  /\ ret = NoReturn
  /\ twin = NoReturn

NextCall ==
  CallParseSemver \/ CallFilterVersions \/ CallDecideUpdate
    \/ CallDecideUpdateAgain \/ CallIsNewer \/ CallCompareVersions
    \/ CallFetchAppVersions \/ CallDockerImageExists
    \/ CallCheckDockerImageExists \/ CallGetPatchVersions
    \/ CallFilterVersionsPatch \/ CallGetLatestVersion

SpecCall == InitCall /\ [][NextCall]_vars


(***************************************************************************)
(* The UI-module pipeline: fetch-updated-ui-modules fetches the            *)
(* descriptors of the applications concurrently and flattens their         *)
(* uiModules into one list; update-package-json merges that list into the  *)
(* manifest.  The registry's answers are fixed for the whole run.          *)
(***************************************************************************)
\* FAR's answer for an application: no descriptor, or a descriptor with
\* its uiModules.
Responses ==
  [found : {FALSE}, uiModules : {<<>>}]
    \cup [found : {TRUE},
          uiModules : {<<>>} \cup {<<module>> : module \in Modules}]

\* The batches of the pipeline: complete records of different applications.
PipeBatches ==
  {batch \in Batches :
     /\ \A i \in 1..Len(batch) : ~KeyError(batch[i])
     /\ \A i, j \in 1..Len(batch) : batch[i] = batch[j] => i = j}

\* extract_ui_modules: the uiModules of the resolved descriptors, in the
\* order of the results.
RECURSIVE extract_ui_modules(_)
extract_ui_modules(app_descriptors) ==
  IF app_descriptors = <<>> THEN <<>>
  ELSE (IF app_descriptors[1].descriptor.found
        THEN registry[app_descriptors[1].descriptor.id[1]].uiModules
        ELSE <<>>)
       \o extract_ui_modules(Tail(app_descriptors))

\* main of fetch-updated-ui-modules after fetch_all_descriptors returned.
ExtractUiModules ==
  /\ ppc = "fetch"
  /\ opc = "returned"
  /\ ui_modules' = extract_ui_modules(results)
  /\ ppc' = "extracted"
  /\ UNCHANGED registry
  /\ UNCHANGED <<orchVars, mergeVars, notPipe>>

\* update_package_json is called with the extracted list.
PipeMergeCall == ppc = "extracted" /\ mpc = "ready" /\ MergeCall

\* One iteration of its for-loop, on the next entry of the list.
PipeMergeStep ==
  /\ ppc = "extracted"
  /\ mpc = "loop"
  /\ consumed < Len(ui_modules)
  /\ MergeEntry(ui_modules[consumed + 1])
  /\ UNCHANGED notMerge

PipeMergeReturn ==
  ppc = "extracted" /\ consumed = Len(ui_modules) /\ MergeReturn

InitPipe ==
  /\ RunIdle
  /\ RetryIdle
  /\ CallIdle
  /\ MainIdle
  /\ CacheIdle
  /\ orchestrator = "ui"
  /\ applications \in PipeBatches
  /\ futures = <<>>
  /\ submitted = 0
  /\ results = <<>>
  /\ opc = IF applications = <<>> THEN "collect" ELSE "submit"
  /\ registry \in [{"app-a", "app-b"} -> Responses]
  /\ ui_modules = <<>>
  /\ ppc = "fetch"
  /\ initial_dependencies \in DependencyMaps \ {<<>>}
  /\ package_json = [has_dependencies |-> TRUE,
                     dependencies |-> initial_dependencies]
  /\ updated_ui_report = <<>>
  /\ not_found_ui_report = <<>>
  /\ mpc = "ready"
  /\ consumed = 0
  /\ calls = 0
  /\ applied = {}
  /\ last_module = InvalidModule

NextPipe ==
  OrchSubmit \/ WorkerStart \/ WorkerFinishFixed \/ OrchCollect \/ OrchReturn
    \/ ExtractUiModules \/ PipeMergeCall \/ PipeMergeStep \/ PipeMergeReturn

SpecPipe == InitPipe /\ [][NextPipe]_vars


(***************************************************************************)
(* The command-line programs: update-applications, update-eureka-          *)
(* components, update-package-json and collect_descriptors from their      *)
(* start to the exit status of the process.                                *)
(***************************************************************************)
UpdateApplications == "update-applications"

UpdateEurekaComponents == "update-eureka-components"

UpdatePackageJson == "update-package-json"

CollectDescriptors == "collect-descriptors"

\* The process ends with the status code.
Exit(code) ==
  /\ exit_code' = code
  /\ gpc' = "exited"

\* The checks of the input with only malformed JSON refused.
InputFatalMalformedOnly(input) == input \in {"absent", "malformed"}

\* The checks of the input before update_applications / update_components
\* is called: no data, JSON that does not parse, an item that is no object
\* with name and version.
InputFatal(input) == input # "valid"

\* The status main returns after the run, with a component's failure
\* counted as the run's.
ReturnCodeStrict(write_failed, failed_components) ==
  IF write_failed \/ failed_components # {} THEN 1 ELSE 0

\* The status main returns after the run: 1 when writing GITHUB_OUTPUT
\* failed, else 0.  The components whose fetch failed do not enter it.
ReturnCode(write_failed, failed_components) ==
  IF write_failed THEN 1 ELSE 0

\* main going on without the check of the scope and the order.
ValidateConfigurationSkipped(cfg) == FALSE

\* validate_configuration raises ValueError: the scope or the order, taken
\* from FILTER_SCOPE or SORT_ORDER as the argument's default, is not among
\* the allowed values.  (argparse does not check a default against choices.)
validate_configuration(cfg) == cfg = "invalid_env"

\* main of update-applications and update-eureka-components up to the call of
\* the run.  argparse refuses a scope or order that is not among the choices
\* with status 2; validate_configuration's ValueError for a value taken from
\* the environment and every refusal of the input end in status 1.
UpdateStart ==
  /\ gpc = "start"
  /\ program \in {UpdateApplications, UpdateEurekaComponents}
  /\ IF config = "invalid_arg" THEN Exit(2)
     ELSE IF validate_configuration(config) \/ InputFatal(data) THEN Exit(1)
     ELSE gpc' = "run" /\ UNCHANGED exit_code
  /\ UNCHANGED <<program, config, data, output, grouping>>
  /\ UNCHANGED notMain

\* One iteration of update_applications' loop inside main.
UpdateApplicationsStep == gpc = "run" /\ ProcessApplication

\* One iteration of update_components' loop inside main.
UpdateComponentsStep == gpc = "run" /\ ProcessComponent

\* main after the run: the result is serialized, appended to GITHUB_OUTPUT
\* and printed.
UpdateExit ==
  /\ gpc = "run"
  /\ program \in {UpdateApplications, UpdateEurekaComponents}
  /\ idx > Len(components)
  /\ Exit(ReturnCode(output = "unwritable", failed))
  /\ UNCHANGED <<program, config, data, output, grouping>>
  /\ UNCHANGED notMain

\* collect_descriptors.py up to fetch_multiple_descriptors: too few
\* arguments, a platform descriptor that is missing or does not parse (status
\* 1), no applications (return, status 0).
CollectStart ==
  /\ gpc = "start"
  /\ program = CollectDescriptors
  /\ IF config = "invalid_arg" \/ data \in {"absent", "malformed"}
     THEN Exit(1)
     ELSE IF applications = <<>> THEN Exit(0)
     ELSE gpc' = "run" /\ UNCHANGED exit_code
  /\ UNCHANGED <<program, config, data, output, grouping>>
  /\ UNCHANGED notMain

CollectRunning == gpc = "run" /\ program = CollectDescriptors

CollectSubmit == CollectRunning /\ OrchSubmit

CollectWorkerStart == CollectRunning /\ WorkerStart

CollectWorkerFinish == CollectRunning /\ WorkerFinish

CollectCollect == CollectRunning /\ OrchCollect

CollectReturn == CollectRunning /\ OrchReturn

CollectUnwind == CollectRunning /\ OrchUnwind

\* failed_fetches after the loop over the results: the descriptors that were
\* not fetched and those whose file could not be written.
FailedFetches(fetched, unwritable) ==
  Cardinality({k \in 1..Len(fetched) :
                 ~fetched[k].descriptor.found \/ unwritable})

\* collect_descriptors after the fetches: sys.exit(1) when failed_fetches > 0.
CollectExit ==
  /\ CollectRunning
  /\ opc = "returned"
  /\ Exit(IF FailedFetches(results, output = "unwritable") > 0 THEN 1 ELSE 0)
  /\ UNCHANGED <<program, config, data, output, grouping>>
  /\ UNCHANGED notMain

\* The KeyError of a record without name or version is caught nowhere: the
\* interpreter prints the traceback and ends with status 1.
CollectKeyError ==
  /\ CollectRunning
  /\ opc = "raised"
  /\ Exit(1)
  /\ UNCHANGED <<program, config, data, output, grouping>>
  /\ UNCHANGED notMain

\* update-package-json up to the loop: json.loads of the two arguments; a
\* JSONDecodeError, or the TypeError for an argument not given, is status 1.
PackageStart ==
  /\ gpc = "start"
  /\ program = UpdatePackageJson
  /\ IF data \in {"absent", "malformed"}
     THEN Exit(1)
     ELSE gpc' = "run" /\ UNCHANGED exit_code
  /\ UNCHANGED <<program, config, data, output, grouping>>
  /\ UNCHANGED notMain

PackageRunning == gpc = "run" /\ program = UpdatePackageJson

PackageCall == PackageRunning /\ mpc = "ready" /\ MergeCall

PackageStep == PackageRunning /\ MergeStep

PackageReturn == PackageRunning /\ MergeReturn

\* main of update-package-json after update_package_json returned: the
\* result is written to the output file; any exception is status 1.
PackageExit ==
  /\ PackageRunning
  /\ mpc = "returned"
  /\ Exit(IF output = "unwritable" THEN 1 ELSE 0)
  /\ UNCHANGED <<program, config, data, output, grouping>>
  /\ UNCHANGED notMain

\* The configurations a program can be started with.
Configs(prog) ==
  CASE prog = UpdateApplications -> {"valid", "invalid_arg", "invalid_env"}
    [] prog = UpdateEurekaComponents -> {"valid", "invalid_arg"}
    [] prog = CollectDescriptors -> {"valid", "invalid_arg"}
    [] OTHER -> {"valid"}

\* The inputs a program can be started with.  A ui_modules entry or a
\* platform descriptor's record without its name is part of the list itself.
Inputs(prog) ==
  IF prog \in {UpdateApplications, UpdateEurekaComponents}
  THEN {"valid", "absent", "malformed", "missing_field"}
  ELSE {"valid", "absent", "malformed"}

InitMain ==
  /\ RetryIdle
  /\ CallIdle
  /\ PipeIdle
  /\ CacheIdle
  /\ program \in {UpdateApplications, UpdateEurekaComponents,
                  UpdatePackageJson, CollectDescriptors}
  /\ config \in Configs(program)
  /\ data \in Inputs(program)
  /\ output \in {"writable", "unwritable"}
  /\ exit_code = -1
  /\ gpc = "start"
  /\ IF program \in {UpdateApplications, UpdateEurekaComponents}
     THEN /\ variant = IF program = UpdateApplications
                       THEN "apps" ELSE "comps"
          /\ filter_scope \in FilterScopes
          /\ sort_order \in SortOrders
          /\ components \in Manifests
          /\ original = components
          /\ idx = 1
          /\ cache = [n \in Names |-> NoEntry]
          /\ writes = [i \in 1..Len(components) |-> 0]
          /\ failed = {}
          /\ last = Idle
     ELSE RunIdle
  /\ IF program = CollectDescriptors
     THEN /\ orchestrator = "collect"
          /\ applications \in Batches
          /\ futures = <<>>
          /\ submitted = 0
          /\ results = <<>>
          /\ opc = IF applications = <<>> THEN "collect" ELSE "submit"
     ELSE OrchIdle
  /\ IF program = UpdatePackageJson
     THEN /\ initial_dependencies \in DependencyMaps
          /\ package_json = [has_dependencies |-> TRUE,
                             dependencies |-> initial_dependencies]
          /\ updated_ui_report = <<>>
          /\ not_found_ui_report = <<>>
          /\ mpc = "ready"
          /\ consumed = 0
          /\ calls = 0
          /\ applied = {}
          /\ last_module = InvalidModule
     ELSE MergeIdle
  /\ grouping \in Groupings(program, Len(components))

NextMain ==
  UpdateStart \/ UpdateApplicationsStep \/ UpdateComponentsStep \/ UpdateExit
    \/ CollectStart \/ CollectSubmit \/ CollectWorkerStart
    \/ CollectWorkerFinish \/ CollectCollect \/ CollectReturn
    \/ CollectUnwind \/ CollectExit \/ CollectKeyError
    \/ PackageStart \/ PackageCall \/ PackageStep \/ PackageReturn
    \/ PackageExit

SpecMain == InitMain /\ [][NextMain]_vars

(***************************************************************************)
(* lru_cache(maxsize=128) around fetch_app_versions: the calls one run of   *)
(* update_applications makes, one per record.  Application names are        *)
(* numbered.  The registry lists 1.0.0 for a name at its first request and  *)
(* has released 1.0.2 by any later request for it.                         *)
(***************************************************************************)
maxsize == 128

MaxNames == 129

\* The names 1..n in order.
Ascending(n) == [i \in 1..n |-> i]

\* The names of a run's records: n different applications, then the first
\* of them once more (an application listed as required and as optional).
Plans ==
  {Ascending(n) \o <<1>> : n \in {1, 2, 3, MaxNames - 1, MaxNames}}

CachedNames(entries) == {entries[i].name : i \in 1..Len(entries)}

\* The entry of a cached name.
Entry(entries, name) ==
  entries[CHOOSE i \in 1..Len(entries) : entries[i].name = name]

Without(entries, name) == SelectSeq(entries, LAMBDA e : e.name # name)

\* The lookup that never finds its key.
IsHitNever(entries, name) == FALSE

\* The cache's lookup of the call's argument.
IsHit(entries, name) == name \in CachedNames(entries)

\* A hit moves the entry to the most recently used end.
Touched(entries, name) ==
  Append(Without(entries, name), Entry(entries, name))

\* A miss stores the result; a full cache drops its least recently used
\* entry.
Stored(entries, name, versions) ==
  Append(IF Len(entries) >= maxsize THEN Tail(entries) ELSE entries,
         [name |-> name, versions |-> versions])

\* What the registry answers to a request for a name.
RegistryList(name) == IF latest[name] = None THEN <<V100>> ELSE <<V100, V102>>

\* fetch_app_versions(name) behind lru_cache, for the next record: a hit
\* returns the stored list and makes no request; a miss makes the request,
\* which raises for a name the registry does not answer (nothing is stored)
\* and else returns the list, which is stored.
CachedFetch ==
  /\ at <= Len(plan)
  /\ IF IsHit(lru, plan[at])
     THEN /\ lookup' = [name |-> plan[at], how |-> "cached",
                        versions |-> Entry(lru, plan[at]).versions,
                        held |-> plan[at] \in CachedNames(lru)]
          /\ lru' = Touched(lru, plan[at])
          /\ UNCHANGED latest
     ELSE IF plan[at] \in down
     THEN /\ lookup' = [name |-> plan[at], how |-> "failed",
                        versions |-> <<>>,
                        held |-> plan[at] \in CachedNames(lru)]
          /\ UNCHANGED <<lru, latest>>
     ELSE /\ lookup' = [name |-> plan[at], how |-> "fetched",
                        versions |-> RegistryList(plan[at]),
                        held |-> plan[at] \in CachedNames(lru)]
          /\ lru' = Stored(lru, plan[at], RegistryList(plan[at]))
          /\ latest' = [latest EXCEPT ![plan[at]] = RegistryList(plan[at])]
  /\ at' = at + 1
  /\ UNCHANGED <<plan, down, tries>>
  /\ UNCHANGED notCache

InitCache ==
  /\ RunIdle
  /\ MergeIdle
  /\ OrchIdle
  /\ RetryIdle
  /\ CallIdle
  /\ PipeIdle
  /\ MainIdle
  /\ plan \in Plans
  /\ at = 1
  /\ lru = <<>>
  /\ latest = [name \in 1..MaxNames |-> None]
  /\ down \in {{}, {1}, {2}}
  /\ lookup = [name |-> 0, how |-> "none", versions |-> <<>>, held |-> FALSE]
  /\ tries = 0

NextCache == CachedFetch

SpecCache == InitCache /\ [][NextCache]_vars

(***************************************************************************)
(* fetch_app_versions as update_applications calls it: with_retries around *)
(* lru_cache around the request.  Each pass of the wrapper's loop calls the *)
(* cached function; the registry answers a request or not as it pleases.   *)
(***************************************************************************)
\* The names of a run's records: two applications, listed once or more
\* than once in any order.
RefetchPlans == UNION {[1..n -> {1, 2}] : n \in 1..(MaxComponents + 1)}

\* The cache keeping an empty list for a call that raised.
UnstoredKeepingEmpty(entries, name) == Stored(entries, name, <<>>)

\* lru_cache stores a result only when the function returns: a call that
\* raises leaves the cache as it was.
Unstored(entries, name) == entries

\* The last pass of the wrapper's loop, for the record at position at.
Pass(name, how, versions, requested) ==
  [name |-> name, how |-> how, versions |-> versions,
   held |-> name \in CachedNames(lru), fresh |-> latest[name] = None,
   requested |-> requested]

\* The request raised: the exception leaves the cached function, and the
\* wrapper retries a RequestException while retries are left.
RefetchRaised(name, class) ==
  /\ lru' = Unstored(lru, name)
  /\ UNCHANGED latest
  /\ IF class = "RequestException" /\ tries < MAX_RETRIES
     THEN /\ lookup' = Pass(name, "retrying", <<>>, TRUE)
          /\ tries' = tries + 1
          /\ UNCHANGED at
     ELSE /\ lookup' = Pass(name, "failed", <<>>, TRUE)
          /\ tries' = 0
          /\ at' = at + 1

\* One pass of the wrapper's loop for the next record of the run.
RefetchAttempt ==
  /\ at <= Len(plan)
  /\ IF IsHit(lru, plan[at])
     THEN /\ lookup' = Pass(plan[at], "cached", Entry(lru, plan[at]).versions,
                            FALSE)
          /\ lru' = Touched(lru, plan[at])
          /\ tries' = 0
          /\ at' = at + 1
          /\ UNCHANGED latest
     ELSE \/ /\ lookup' = Pass(plan[at], "fetched", RegistryList(plan[at]),
                               TRUE)
             /\ lru' = Stored(lru, plan[at], RegistryList(plan[at]))
             /\ latest' = [latest EXCEPT ![plan[at]] = RegistryList(plan[at])]
             /\ tries' = 0
             /\ at' = at + 1
          \/ \E class \in {"RequestException", "ValueError"} :
               RefetchRaised(plan[at], class)
  /\ UNCHANGED <<plan, down>>
  /\ UNCHANGED notCache

InitRefetch ==
  /\ RunIdle
  /\ MergeIdle
  /\ OrchIdle
  /\ RetryIdle
  /\ CallIdle
  /\ PipeIdle
  /\ MainIdle
  /\ plan \in RefetchPlans
  /\ at = 1
  /\ lru = <<>>
  /\ latest = [name \in 1..MaxNames |-> None]
  /\ down = {}
  /\ lookup = [name |-> 0, how |-> "none", versions |-> <<>>, held |-> FALSE,
               fresh |-> FALSE, requested |-> FALSE]
  /\ tries = 0

NextRefetch == RefetchAttempt

SpecRefetch == InitRefetch /\ [][NextRefetch]_vars

(***************************************************************************)
(* The loops of update_applications and update_components with the calls   *)
(* of the retry wrapper inside them: each iteration calls its fetcher in   *)
(* the thread of the loop and goes on when the wrapper has returned or     *)
(* raised.                                                                 *)
(***************************************************************************)
\* The manifests of the loop: records of different names.
LoopManifests ==
  {m \in Manifests : \A i, j \in 1..Len(m) : m[i].name = m[j].name => i = j}

\* What a fetcher returns to the loop: nothing, or a newer version in scope.
LoopLists == {<<>>, <<V102>>}

\* The iteration goes on whether or not its fetcher has come back.
FetchDoneEarly == TRUE

\* The call of the fetcher has come back to the loop body: the wrapper
\* returned the fetcher's result or raised.
FetchDone == rpc \in {"returned", "raised"}

\* The next iteration's call enters the wrapper: retries = 0, last_error =
\* None.
WrapperEntered ==
  /\ rpc' = "calling"
  /\ retries' = 0
  /\ last_error' = NoError
  /\ attempts' = 0
  /\ waits' = <<>>
  /\ raised' = NoError
  /\ UNCHANGED client

\* One pass of the wrapper's while-loop for the record of this iteration;
\* its time.sleep runs in the thread of the for-loop.
LoopAttempt ==
  /\ idx <= Len(components)
  /\ RetryAttempt

\* The rest of an iteration of update_applications once fetch_app_versions
\* has come back.
LoopResolveApplication ==
  /\ variant = "apps"
  /\ idx <= Len(components)
  /\ FetchDone
  /\ IF rpc = "raised"
     THEN AppFetchFailed
     ELSE \E versions \in LoopLists :
            /\ cache' = [cache EXCEPT
                           ![components[idx].name] =
                              [present |-> TRUE, versions |-> versions]]
            /\ AppResolved(versions, "fetched")
  /\ idx' = idx + 1
  /\ WrapperEntered
  /\ UNCHANGED <<variant, filter_scope, sort_order, original>>
  /\ UNCHANGED <<mergeVars, orchVars, callVars, pipeVars, mainVars,
                 cacheVars>>

\* The rest of an iteration of update_components once
\* fetch_repo_release_tags has come back.
LoopResolveComponent ==
  /\ variant = "comps"
  /\ idx <= Len(components)
  /\ FetchDone
  /\ IF rpc = "raised"
     THEN CompFailed("failed")
     ELSE \/ CompFailed("error")
          \/ \E all_tags \in LoopLists : CompResolved(all_tags)
  /\ idx' = idx + 1
  /\ WrapperEntered
  /\ UNCHANGED <<variant, filter_scope, sort_order, original, cache>>
  /\ UNCHANGED <<mergeVars, orchVars, callVars, pipeVars, mainVars,
                 cacheVars>>

InitLoop ==
  /\ MergeIdle
  /\ OrchIdle
  /\ CallIdle
  /\ PipeIdle
  /\ CacheIdle
  /\ MainIdle
  /\ variant \in {"apps", "comps"}
  /\ client = IF variant = "apps" THEN "apps" ELSE "tags"
  /\ filter_scope = "patch"
  /\ sort_order \in SortOrders
  /\ components \in LoopManifests
  /\ original = components
  /\ idx = 1
  /\ cache = [n \in Names |-> NoEntry]
  /\ writes = [i \in 1..Len(components) |-> 0]
  /\ failed = {}
  /\ last = Idle
  /\ retries = 0
  /\ last_error = NoError
  /\ attempts = 0
  /\ waits = <<>>
  /\ rpc = "calling"
  /\ raised = NoError

NextLoop == LoopAttempt \/ LoopResolveApplication \/ LoopResolveComponent

\* The interpreter runs the loop on: a step that can be taken is taken.
SpecLoop == InitLoop /\ [][NextLoop]_vars /\ WF_vars(NextLoop)

(***************************************************************************)
(* Properties of update_package_json.                                      *)
(***************************************************************************)
\* A step of the for-loop was taken; last_module' is the entry it processed.
Processed == mpc = "loop" /\ consumed' = consumed + 1

PackageName(module) == convert_ui_module_name(module.name)

Managed(module) ==
  module.valid /\ PackageName(module) \in DOMAIN package_json.dependencies

Pin(module) == package_json.dependencies[PackageName(module)]

Higher(module) ==
  Managed(module) /\ compare_versions(module.version, Pin(module)) > 0

C4_EveryAbsentCandidateReported ==
  calls = 1 =>
    \A module \in applied :
      (module.valid /\ ~Managed(module)) =>
        /\ module.name \in DOMAIN not_found_ui_report
        /\ not_found_ui_report[module.name] = module.version

\* C4: the key set of the dependency map never changes; a valid candidate
\* whose translated name is absent from the map changes no pin and is put
\* in the not-found report under its name with its version, where it
\* replaces an earlier entry of that name.
C4_NeverAdds ==
  /\ [](DOMAIN package_json.dependencies = DOMAIN initial_dependencies)
  /\ [][(Processed /\ last_module'.valid /\ ~Managed(last_module'))
          => /\ package_json' = package_json
             /\ updated_ui_report' = updated_ui_report
             /\ DOMAIN not_found_ui_report' =
                  DOMAIN not_found_ui_report \cup {last_module'.name}
             /\ not_found_ui_report'[last_module'.name] = last_module'.version
             /\ \A n \in DOMAIN not_found_ui_report \ {last_module'.name} :
                  not_found_ui_report'[n] = not_found_ui_report[n]]_vars

\* Two candidates for the unmanaged folio_x were processed in one call and
\* the report holds the later one.
C4_Witness ==
  /\ calls = 1
  /\ consumed = 2
  /\ applied = [valid : {TRUE}, name : {ModuleX}, version : {V100, V102}]
  /\ not_found_ui_report = SetItem(<<>>, ModuleX, V100)
  /\ DOMAIN package_json.dependencies = {KeyA, KeyB}

OwnDescriptor(app) == Descriptor(get(app, "name"), get(app, "version"))

\* C8: an orchestrator that has returned has seen every fetch finish and
\* returns exactly one entry per submitted record, in any order, each entry
\* holding what the fetch made for that record returned: the descriptor of
\* that record's name and version, or None when that fetch failed.
C8_OneOutcomePerComponent ==
  opc = "returned" =>
    /\ Len(futures) = Len(applications)
    /\ Len(results) = Len(applications)
    /\ \A i \in 1..Len(applications) :
         /\ futures[i].state = "done"
         /\ Cardinality({k \in 1..Len(results) : results[k].app = i}) = 1
    /\ \A k \in 1..Len(results) :
         /\ results[k].descriptor = futures[results[k].app].descriptor
         /\ results[k].descriptor \in
              {NoDescriptor, OwnDescriptor(applications[results[k].app])}

\* Three records, the fetches finished out of submission order, the second
\* one failed and the other two resolved.
C8_Witness ==
  /\ opc = "returned"
  /\ Len(applications) = 3
  /\ applications[1].name = "app-a"
  /\ applications[3].name = "app-b"
  /\ results[1] = [app |-> 3, descriptor |-> Descriptor("app-b", "1.0.0")]
  /\ results[2] = [app |-> 2, descriptor |-> NoDescriptor]
  /\ results[3] = [app |-> 1, descriptor |-> Descriptor("app-a", "1.0.0")]

\* C9 as stated: a record lacking its name never aborts the batch; an
\* orchestrator that has finished has returned an entry for every record.
C9_BatchNeverAborted ==
  /\ opc # "raised"
  /\ opc = "returned" => Len(results) = Len(applications)

(***************************************************************************)
(* Properties of with_retries.                                             *)
(***************************************************************************)
\* C10 as stated: at most MAX_RETRIES + 1 calls of func; a success returns
\* at once; when all MAX_RETRIES + 1 calls failed, the error that reaches
\* the caller is the error the last call raised.
C10_RaisesLastAttemptsError ==
  /\ attempts <= MAX_RETRIES + 1
  /\ rpc = "returned" => raised = NoError
  /\ (rpc = "raised" /\ attempts = MAX_RETRIES + 1) =>
       /\ raised.attempt = attempts
       /\ raised.kind \in {"request", "rate_limited", "other"}

\* The answers the retry policy is stated for.
NonRetryable(answer) ==
  \/ answer.reply = "malformed"
  \/ answer.reply = "status" /\ answer.status \in 400..499
       /\ answer.status # 429

Transient(answer) ==
  \/ answer.reply = "network"
  \/ answer.reply = "status" /\ answer.status \in 500..599

\* The failures the wrapper holds: the one it kept for a retry and the one
\* that left it.
Failures == {last_error, raised} \ {NoError}

\* C11 as stated: a call that fails with a 4xx status other than 429, or on
\* a malformed body, is not attempted again and is not waited for: the
\* failure leaves the wrapper with that attempt.
C11_NonRetryableNotRetried ==
  \A e \in Failures :
    (NonRetryable(e.answer) /\ e.attempt = attempts) =>
      /\ rpc = "raised"
      /\ raised.answer = e.answer
      /\ Len(waits) < attempts

\* C12 as stated: for both clients a call that fails on a network error or
\* a 5xx status is attempted again while retries are left.
C12_TransientRetried ==
  \A e \in Failures :
    (Transient(e.answer) /\ e.attempt = attempts /\ attempts <= MAX_RETRIES)
      => rpc = "calling"

\* C13 as stated: after an attempt the wrapper saw fail with 429 and a
\* Retry-After header, it has slept exactly the header's value, whatever
\* the attempt and the header.
C13_HintHonoured ==
  (last_error.kind = "rate_limited" /\ last_error.attempt = attempts
     /\ last_error.answer.retry_after # NoHeader) =>
    /\ IntLiteralOK(last_error.answer.retry_after)
    /\ Len(waits) = attempts
    /\ waits[Len(waits)] = IntValue(last_error.answer.retry_after)

(***************************************************************************)
(* Properties of parse_semver, filter_versions and decide_update.          *)
(***************************************************************************)
\* C14 as stated: parse_semver returns three integers, none of them
\* negative; the empty string (and None) parse to (0,0,0).
C14_ThreeNonNegativeIntegers ==
  (call.fn = "parse_semver" /\ ret.done) =>
    /\ Len(ret.value) = 3
    /\ \A i \in 1..3 : ret.value[i] \in Nat
    /\ Falsy(call.version) => ret.value = <<0, 0, 0>>

\* The scope constraint of the Version Model on the triples of v and base.
Satisfies(v, base, scope) ==
  \/ scope = "major"
  \/ scope = "minor" /\ ParseSemver(v)[1] = ParseSemver(base)[1]
  \/ scope = "patch" /\ ParseSemver(v)[1] = ParseSemver(base)[1]
       /\ ParseSemver(v)[2] = ParseSemver(base)[2]

Above(current, candidates) ==
  {i \in 1..Len(candidates) :
     TupleLess(ParseSemver(current), ParseSemver(candidates[i]))}

\* C16: decide_update returns None when the list is empty or no candidate's
\* triple is strictly above the current triple; otherwise it returns a
\* member of the list whose triple is the maximum over the list and is
\* strictly above the current triple.
C16_DecideReturnsMaximum ==
  (call.fn = "decide_update" /\ ret.done) =>
    IF Above(call.version, call.versions) = {}
    THEN ret.value = None
    ELSE /\ \E i \in 1..Len(call.versions) : call.versions[i] = ret.value
         /\ \A i \in 1..Len(call.versions) :
              TupleLeq(ParseSemver(call.versions[i]), ParseSemver(ret.value))
         /\ TupleLess(ParseSemver(call.version), ParseSemver(ret.value))

\* Given 1.0.1 and [1.1.0, 1.0.2] in ascending order, 1.1.0 is returned.
C16_Witness ==
  /\ call.fn = "decide_update"
  /\ ret.done
  /\ call.order = "asc"
  /\ call.version = V101
  /\ call.versions = <<V110, V102>>
  /\ ret.value = V110

\* C17 as stated: with asc and with desc decide_update returns the same
\* version string, or None both times.
C17_SameStringForBothOrders ==
  (call.fn = "decide_update" /\ twin.done) => ret.value = twin.value

\* The candidates whose triple is the maximum over the list.
Maxima(candidates) ==
  {candidates[i] : i \in {j \in 1..Len(candidates) :
     \A k \in 1..Len(candidates) :
       TupleLeq(ParseSemver(candidates[k]), ParseSemver(candidates[j]))}}

\* C17: with asc and with desc decide_update returns None both times or
\* versions of the same triple; the strings are the same when one string
\* alone has the maximum triple.
C17_SameTripleForBothOrders ==
  (call.fn = "decide_update" /\ twin.done) =>
    /\ (ret.value = None) <=> (twin.value = None)
    /\ ParseSemver(ret.value) = ParseSemver(twin.value)
    /\ Cardinality(Maxima(call.versions)) = 1 => ret.value = twin.value

\* 1.1.0 and 1.1 tie at (1,1,0): asc returned the last and desc the first.
C17_Witness ==
  /\ twin.done
  /\ call.order = "asc"
  /\ call.version = V101
  /\ call.versions = <<V110, V11>>
  /\ ret.value = V11
  /\ twin.value = V110

(***************************************************************************)
(* Properties of the UI-module pipeline.                                   *)
(***************************************************************************)
\* The uiModules of the first k applications in the order of the input.
RECURSIVE InOrderUiModules(_)
InOrderUiModules(k) ==
  IF k = 0 THEN <<>>
  ELSE InOrderUiModules(k - 1)
         \o (IF registry[applications[k].name].found
             THEN registry[applications[k].name].uiModules
             ELSE <<>>)

\* What one iteration of update_package_json's loop makes of the manifest
\* and the two reports.
MergedEntry(out, module, package_name) ==
  IF ~module.valid THEN out
  ELSE IF package_name \notin DOMAIN out.dependencies
  THEN [out EXCEPT !.not_found = SetItem(@, module.name, module.version)]
  ELSE IF ShouldOverwrite(compare_versions(module.version,
                                           out.dependencies[package_name]))
  THEN [out EXCEPT
          !.dependencies[package_name] = module.version,
          !.updated =
             Append(@, [name |-> module.name,
                        change |-> [old |-> out.dependencies[package_name],
                                    new |-> module.version]])]
  ELSE out

\* What the whole loop makes of them for the list modules.
RECURSIVE Merged(_, _)
Merged(out, modules) ==
  IF modules = <<>> THEN out
  ELSE Merged(MergedEntry(out, modules[1],
                          convert_ui_module_name(modules[1].name)),
              Tail(modules))

\* The artifacts of the run whose fetches complete in the order of the input.
InOrderArtifacts ==
  Merged([dependencies |-> initial_dependencies,
          updated |-> <<>>,
          not_found |-> <<>>],
         InOrderUiModules(Len(applications)))

\* C18: for a fixed batch of applications, fixed registry answers and a fixed
\* manifest, the collected UI-modules list, the dependency map and the two
\* reports of update_package_json are those of the run whose fetches complete
\* in the order of the input, whatever the order of completion was.
C18_ArtifactsIndependentOfCompletionOrder ==
  /\ ppc = "extracted" => ui_modules = InOrderUiModules(Len(applications))
  /\ (ppc = "extracted" /\ mpc = "returned") =>
       /\ package_json.dependencies = InOrderArtifacts.dependencies
       /\ updated_ui_report = InOrderArtifacts.updated
       /\ not_found_ui_report = InOrderArtifacts.not_found

(***************************************************************************)
(* Properties of the command-line programs (SpecMain).                     *)
(***************************************************************************)
Exited == gpc = "exited"

\* The input data is invalid: none, not parseable, or with an entry that
\* lacks its name or version.
InvalidInput ==
  \/ data # "valid"
  \/ /\ program = CollectDescriptors
     /\ \E i \in 1..Len(applications) : KeyError(applications[i])

ConfigError == config # "valid"

WriteFailure == output = "unwritable"

\* collect_descriptors was returned no descriptor for some application.
DescriptorMissing ==
  /\ program = CollectDescriptors
  /\ \E k \in 1..Len(results) : ~results[k].descriptor.found

\* C19 as stated: a run whose only failures are per-component fetch errors
\* exits with status 0, and status 1 occurs only for invalid input data, a
\* configuration error or an output-write failure.
C19_FetchErrorsNeverFailTheRun ==
  Exited =>
    /\ exit_code = 1 => (InvalidInput \/ ConfigError \/ WriteFailure)
    /\ (~InvalidInput /\ ~ConfigError /\ ~WriteFailure) => exit_code = 0

\* C19 as the programs have it: update-applications, update-eureka-components
\* and update-package-json exit with 0 whatever fetches failed and with 1
\* only for invalid input, a configuration error or an output-write failure;
\* collect_descriptors in addition exits with 1 when the descriptor of some
\* application could not be fetched.
C19_ExitCodes ==
  Exited =>
    /\ exit_code = 1 =>
         (InvalidInput \/ ConfigError \/ WriteFailure \/ DescriptorMissing)
    /\ (~InvalidInput /\ ~ConfigError /\ ~WriteFailure /\ ~DescriptorMissing)
         => exit_code = 0
    /\ (~InvalidInput /\ ~ConfigError /\ DescriptorMissing) => exit_code = 1

\* update-applications ended with status 0 although the fetch failed for a
\* component of a valid manifest.
C19_Witness ==
  /\ Exited
  /\ program = UpdateApplications
  /\ failed # {}
  /\ ~InvalidInput /\ ~ConfigError /\ ~WriteFailure
  /\ exit_code = 0

\* No component, application or candidate was processed: no iteration of a
\* run's loop happened, no fetch was submitted, update_package_json's loop
\* was not entered.
NothingProcessed ==
  /\ components = original
  /\ \A i \in 1..Len(writes) : writes[i] = 0
  /\ failed = {}
  /\ last = Idle
  /\ futures = <<>>
  /\ calls = 0
  /\ applied = {}

\* No pin of the manifest was changed and nothing was reported.
NoPinChanged ==
  /\ package_json.dependencies = initial_dependencies
  /\ updated_ui_report = <<>>

\* update-package-json met a ui_modules entry that is no object with name
\* and version.
EntryLacksField ==
  /\ program = UpdatePackageJson
  /\ InvalidModule \in applied

RECURSIVE Unprefixed(_)
Unprefixed(s) ==
  IF s # <<>> /\ s[1] \in {"v", "V", "^", "~"} THEN Unprefixed(Tail(s))
  ELSE s

\* A version string without its prefix and without the characters of its
\* segments that are no digits.
Plain(s) == SelectSeq(Unprefixed(s), LAMBDA c : IsDigit(c) \/ c = ".")

\* C21: a leading v or V, a leading ^ or ~ and the non-digit characters
\* inside a segment are stripped before a comparison: parse_semver reads a
\* string as it reads the stripped one, is_newer finds neither of two strings
\* that are the same when stripped newer, and compare_versions finds them
\* equal.
C21_SpellingsDenoteOneVersion ==
  /\ (call.fn = "parse_semver" /\ ret.done /\ call.version # None) =>
       ret.value = parse_semver(Plain(call.version))
  /\ (call.fn = "is_newer" /\ ret.done
        /\ Plain(call.version) = Plain(call.base)) => ret.value = FALSE
  /\ (call.fn = "compare_versions" /\ ret.done
        /\ Plain(call.version) = Plain(call.base)) => ret.value = 0

\* The first three dot-separated segments of a version string.
FirstThree(s) ==
  SubSeq(split(s, "."), 1, IF Len(split(s, ".")) < 3
                           THEN Len(split(s, ".")) ELSE 3)

\* C22: segments beyond the third never influence a comparison: for two
\* strings that agree on their first three segments is_newer finds neither
\* newer and compare_versions returns 0.
C22_FourthSegmentIgnored ==
  /\ (call.fn = "is_newer" /\ ret.done
        /\ FirstThree(call.version) = FirstThree(call.base)) =>
       ret.value = FALSE
  /\ (call.fn = "compare_versions" /\ ret.done
        /\ FirstThree(call.version) = FirstThree(call.base)) =>
       ret.value = 0

(***************************************************************************)
(* Properties of the waits of with_retries (SpecRetry).                    *)
(***************************************************************************)
\* The step is a failed attempt that was no rate limit and was waited for.
BackoffStep ==
  /\ last_error'.kind = "request"
  /\ attempts' = attempts + 1
  /\ Len(waits') = Len(waits) + 1

RuleYields(payload) ==
  <<IF payload.kind = "dict" /\ payload.applicationDescriptors.is = "list"
    THEN SelectSeq(payload.applicationDescriptors.items,
                   LAMBDA item : item # None)
    ELSE <<>>,
    IF payload.kind = "list"
    THEN SelectSeq(payload.items, LAMBDA item : item # None)
    ELSE <<>>,
    IF payload.kind = "dict" /\ payload.applications.is = "list"
    THEN SelectSeq(payload.applications.items, LAMBDA item : item # None)
    ELSE <<>>,
    IF payload.kind = "dict" /\ payload.version # None
    THEN <<payload.version>>
    ELSE <<>>>>

\* The first non-empty list of a sequence of lists, or the empty list.
RECURSIVE FirstNonEmpty(_)
FirstNonEmpty(yields) ==
  IF yields = <<>> THEN <<>>
  ELSE IF yields[1] # <<>> THEN yields[1]
  ELSE FirstNonEmpty(Tail(yields))

\* C24: for every parsed payload fetch_app_versions returns the list of the
\* first extraction rule, in their order, that yields a non-empty list, and
\* the empty list when none does.
C24_FirstYieldingRuleWins ==
  (call.fn = "fetch_app_versions" /\ ret.done) =>
    ret.value = FirstNonEmpty(RuleYields(call.payload))

(***************************************************************************)
(* Properties of the cache of fetch_app_versions (SpecCache).              *)
(***************************************************************************)
\* The last call was for a name an earlier call of the run had fetched.
FetchedBefore ==
  /\ lookup.how # "none"
  /\ \E i \in 1..(at - 2) : plan[i] = lookup.name
  /\ lookup.name \notin down

\* C25 as stated: once fetch_app_versions has succeeded for a name, every
\* later call for that name makes no request and returns the same list.
C25_LaterCallsNeverRequest ==
  FetchedBefore =>
    /\ lookup.how = "cached"
    /\ lookup.versions = <<V100>>

\* C25 as the cache has it: the cache holds at most maxsize names; a call
\* for a name it holds makes no request and returns the list the last
\* request for that name returned; a name called again after at most
\* maxsize - 1 other names is still held.
C25_HeldNamesNeverRequest ==
  /\ Len(lru) <= maxsize
  /\ lookup.held =>
       /\ lookup.how = "cached"
       /\ lookup.versions = latest[lookup.name]
  /\ (FetchedBefore /\ Len(plan) <= maxsize + 1) =>
       /\ lookup.how = "cached"
       /\ lookup.versions = <<V100>>

\* The first application was called again after maxsize - 1 others and
\* answered from the cache.
C25_Witness ==
  /\ Len(plan) = maxsize + 1
  /\ at = Len(plan) + 1
  /\ lookup = [name |-> 1, how |-> "cached", versions |-> <<V100>>,
               held |-> TRUE]

(***************************************************************************)
(* Properties of the loops with their retries (SpecLoop).                  *)
(***************************************************************************)
\* The iteration for record a has slept after a failed attempt and its
\* fetcher has not come back; records after it wait to be resolved.
WaitingAt(a) ==
  /\ idx = a
  /\ rpc = "calling"
  /\ waits # <<>>
  /\ a < Len(components)

\* The resolution of record j has begun or ended.
Begun(j) ==
  \/ last.index >= j
  \/ j \in failed
  \/ writes[j] > 0
  \/ idx > j
  \/ idx = j /\ attempts > 0

\* C26 as stated: while a record is waiting to retry, the fetch for a
\* record after it starts before the waiting record is resolved.
C26_WaitBlocksOnlyItsOwner ==
  \A a \in 1..MaxComponents :
    WaitingAt(a) ~>
      (idx = a /\ \E j \in (a + 1)..Len(components) : Begun(j))

\* C26 as the loops have it: the records are resolved one at a time in the
\* order of the manifest in the thread of the loop; while a record's fetch
\* waits or retries no record after it has been touched, and the loop moves
\* to the next record only when the fetcher has returned or raised.
C26_WaitBlocksTheLoop ==
  /\ [](\A j \in 1..Len(components) :
          j >= idx =>
            /\ (j > idx \/ rpc = "calling") => ~(j \in failed)
            /\ components[j] = original[j]
            /\ writes[j] = 0
            /\ last.index < j)
  /\ [][idx' # idx => (rpc \in {"returned", "raised"} /\ idx' = idx + 1)]_vars

\* The first of two records has slept twice and is about to be tried again;
\* the second record is as it was.
C26_Witness ==
  /\ WaitingAt(1)
  /\ Len(waits) = 2
  /\ Len(components) = 2
  /\ ~Begun(2)

\* C27: an image check (docker_image_exists, check_docker_image_exists)
\* returns true only when the tag lookup was answered with HTTP 200; every
\* other status and every network failure yield false, and the check never
\* raises.
C27_TrueOnlyOn200 ==
  (call.fn \in {"docker_image_exists", "check_docker_image_exists"}
     /\ ret.done) =>
    /\ ~ret.value.raised
    /\ ret.value.exists <=>
         (call.probe.reply = "answered" /\ call.probe.status = 200)

\* C27 witness: platformcheck's lookup timed out and the check returned
\* false.
C27_Witness ==
  /\ call.fn = "check_docker_image_exists"
  /\ call.probe.reply = "Timeout"
  /\ ret.done
  /\ ~ret.value.raised
  /\ ~ret.value.exists

\* C28: a filter scope or sort order that is not allowed is rejected at
\* startup by update-applications and update-eureka-components: the process
\* ends with a failure exit code, no registry fetch is issued and no
\* component is modified.
C28_InvalidConfigurationRejected ==
  (program \in {UpdateApplications, UpdateEurekaComponents}
     /\ config # "valid") =>
    /\ gpc # "run"
    /\ NothingProcessed
    /\ cache = [n \in Names |-> NoEntry]
    /\ Exited => exit_code \in {1, 2}

\* C28 witness: update-applications was started with valid data and a scope
\* from the environment that is not allowed, and has exited with status 1
\* leaving its components alone.
C28_Witness ==
  /\ Exited
  /\ program = UpdateApplications
  /\ config = "invalid_env"
  /\ data = "valid"
  /\ components # <<>>
  /\ components = original
  /\ exit_code = 1

\* The names of a list of records, in order.
NamesOf(list) == [i \in 1..Len(list) |-> list[i].name]

\* C29: update_applications, update_components and
\* process_applications_json change nothing but version fields: the number
\* of components, their names, their order and, for grouped input, the
\* members of each group are the same after the run as before it, whatever
\* the fetches returned or raised.
C29_OnlyVersionsChange ==
  program \in {UpdateApplications, UpdateEurekaComponents} =>
    /\ Len(components) = Len(original)
    /\ NamesOf(components) = NamesOf(original)
    /\ \A i \in 1..Len(components) :
         components[i].version # original[i].version => writes[i] > 0
    /\ grouping.grouped =>
         \A g \in 1..Len(grouping.sizes) :
           NamesOf(Group(components, grouping.sizes, g)) =
             NamesOf(Group(original, grouping.sizes, g))

\* C29 witness: update-applications has exited after a run over a grouped
\* payload of one required and one optional application in which the first
\* fetch failed and the second record's version was changed.
C29_Witness ==
  /\ Exited
  /\ program = UpdateApplications
  /\ grouping = [grouped |-> TRUE, sizes |-> <<1, 1>>]
  /\ 1 \in failed
  /\ components[2].version # original[2].version
  /\ Group(components, grouping.sizes, 2) = <<components[2]>>

\* C30: with_retries performs at most MAX_RETRIES waits per invocation; no
\* wait follows the final failed attempt before the error is raised, whether
\* that attempt failed with a rate limit (429) or with another request
\* error.
C30_NoWaitAfterFinalAttempt ==
  /\ Len(waits) <= MAX_RETRIES
  /\ (rpc = "raised" /\ raised.kind \in {"rate_limited", "request"}) =>
       Len(waits) < attempts

(***************************************************************************)
(* Properties of the retried, cached fetch (SpecRefetch).                  *)
(***************************************************************************)
\* C31: a failed fetch leaves no entry in the per-name cache: every retry
\* attempt inside with_retries, and every later call of fetch_app_versions
\* for a name whose earlier calls all failed, issues a new remote request,
\* and a later success for that name is returned and cached.
C31_FailureLeavesNoEntry ==
  /\ lookup.how \in {"retrying", "failed"} =>
       lookup.name \notin CachedNames(lru)
  /\ (lookup.how # "none" /\ lookup.fresh) =>
       /\ lookup.requested
       /\ lookup.how # "cached"
       /\ lookup.how = "fetched" =>
            /\ lookup.versions = <<V100>>
            /\ lookup.name \in CachedNames(lru)
            /\ Entry(lru, lookup.name).versions = lookup.versions

\* C31 witness: no earlier call for application 1 succeeded, and the later
\* call for it in the same run was answered by the registry and cached.
C31_Witness ==
  /\ plan = <<1, 2, 1>>
  /\ at = 4
  /\ lookup.name = 1
  /\ lookup.how = "fetched"
  /\ lookup.fresh
  /\ lookup.requested
  /\ 1 \in CachedNames(lru)

(***************************************************************************)
(* Properties of update_package_json over the orders of its candidates.    *)
(***************************************************************************)
\* The orders a list can be handed over in.
Reordered(list) ==
  {[i \in 1..Len(list) |-> list[p[i]]] : p \in Permutations(1..Len(list))}

\* The dependency map update_package_json makes of the manifest for the
\* candidate list modules.
PinsFor(modules) ==
  Merged([dependencies |-> initial_dependencies, updated |-> <<>>,
          not_found |-> <<>>], modules).dependencies

\* C32: the final dependency map produced by update_package_json is
\* independent of the order of the candidate list: for every manifest and
\* every permutation of the same candidates, several candidates for one
\* dependency and candidates that compare equal but are spelled differently
\* included, the resulting pins are the same strings.
C32_PinsIndependentOfCandidateOrder ==
  (ppc = "extracted" /\ mpc = "returned") =>
    /\ package_json.dependencies = PinsFor(ui_modules)
    /\ \A modules \in Reordered(ui_modules) :
         PinsFor(modules) = package_json.dependencies

(***************************************************************************)
(* Properties of update_package_json when it applies nothing (SpecMerge).  *)
(***************************************************************************)
\* C33 as stated: when no candidate is applied (empty candidate list, or
\* every candidate is not-found, same-version or a downgrade) the manifest
\* update_package_json returns equals the manifest it was given, also for
\* a manifest without a dependencies section: no step of a call in which
\* nothing has been applied changes the manifest.
C33_ManifestReturnedAsGiven ==
  [][updated_ui_report' = <<>> => package_json' = package_json]_vars

\* C33 as the function has it: when no candidate is applied the returned
\* manifest has the dependencies of the input, every pin unchanged, and it
\* has a dependencies section: a manifest given without one is returned
\* with an empty one.
C33_PinsReturnedAsGiven ==
  (calls = 1 /\ mpc \in {"loop", "returned"} /\ updated_ui_report = <<>>) =>
    /\ package_json.dependencies = initial_dependencies
    /\ package_json.has_dependencies

\* C33 witness: the first call has returned after skipping a downgrade, a
\* candidate of the pinned version and a module that is no dependency, and
\* nothing was applied.
C33_Witness ==
  /\ calls = 1
  /\ mpc = "returned"
  /\ updated_ui_report = <<>>
  /\ initial_dependencies # <<>>
  /\ applied = {[valid |-> TRUE, name |-> ModuleA, version |-> V100],
                [valid |-> TRUE, name |-> ModuleA, version |-> V101],
                [valid |-> TRUE, name |-> ModuleX, version |-> V102]}

(***************************************************************************)
(* Properties of platformcheck's version helpers (SpecCall).               *)
(***************************************************************************)
\* C35: the two patch-scope filters agree: for every version list and base
\* version, get_patch_versions(versions, base) of platformcheck returns the
\* same list as filter_versions(versions, base, "patch") of the update
\* scripts, also for versions or bases with fewer than two dot-separated
\* segments.
C35_PatchFiltersAgree ==
  (call.fn = "get_patch_versions" /\ ret.done /\ twin.done) =>
    ret.value = twin.value

\* The positions of the list holding a version in the patch scope of the
\* current version whose triple is greater than the current one's.
PatchUpdates(current_version, versions) ==
  {i \in 1..Len(versions) :
     /\ InScope(versions[i], current_version, "patch")
     /\ is_newer(current_version, versions[i])}

\* C34: in platformcheck, whenever the fetched version list contains at
\* least one version in the patch scope of the current version whose numeric
\* triple is greater than the current one, get_latest_version reports
\* has_update = true and returns the greatest such version, also when the
\* list contains other versions with non-numeric segments.
C34_LatestPatchReported ==
  (call.fn = "get_latest_version" /\ ret.done
     /\ PatchUpdates(call.base, call.versions) # {}) =>
    /\ ret.value.has_update
    /\ \E i \in PatchUpdates(call.base, call.versions) :
         ret.value.version = call.versions[i]
    /\ \A i \in PatchUpdates(call.base, call.versions) :
         TupleLeq(parse_semver(call.versions[i]),
                  parse_semver(ret.value.version))

====
